---- MODULE Spec2Model ----
(***************************************************************************)
(* tq: the query engine (pkg/query/query.go) and the TOON codec            *)
(* (pkg/toon/toon.go).                                                     *)
(*                                                                         *)
(* A Go string is a sequence of one-character strings, a Go value          *)
(* (interface{}) a tagged record, and a Go (value, error) return an        *)
(* outcome record.  Every function of the source is an operator of the     *)
(* same name; a loop of the source is a recursive operator named after     *)
(* the function that holds it.                                             *)
(***************************************************************************)
EXTENDS Integers, Sequences, FiniteSets, TLC

VARIABLES query, data, result, text, decoded, pc

vars == <<query, data, result, text, decoded, pc>>

(***************************************************************************)
(* Bounds of the model.                                                    *)
(***************************************************************************)
\* longest array among the input documents
MaxLen == 3
\* array indices tried by the index queries range over -MaxIdx..MaxIdx
MaxIdx == 4
\* most alternatives in a chain e1 // ... // en
MaxChain == 3
\* most rows of a tabular array in a document given as text
MaxRows == 2
\* nested calls of executeQuery before the goroutine stack is exhausted
MaxDepth == 12

\* the longest list that fits in memory
MaxRange == 8

(***************************************************************************)
(* Go strings.                                                             *)
(***************************************************************************)
\* the characters of the model in byte order, for Go's string comparison
ByteOrder ==
  <<"\t", "\n", " ", "\"", "(", ")", "+", ",", "-", ".", "/",
    "0", "1", "2", "3", "4", "5", "6", "7", "8", "9",
    ":", ";", "<", "=", ">", "[", "\\", "]", "_",
    "a", "b", "c", "d", "e", "f", "g", "h", "i", "j", "k", "l", "m",
    "n", "o", "p", "q", "r", "s", "t", "u", "v", "w", "x", "y", "z",
    "{", "|", "}">>

Ord(c) == CHOOSE i \in 1..Len(ByteOrder) : ByteOrder[i] = c

Digits == <<"0", "1", "2", "3", "4", "5", "6", "7", "8", "9">>

IsDigit(c) == \E i \in 1..10 : Digits[i] = c

DigitVal(c) == (CHOOSE i \in 1..10 : Digits[i] = c) - 1

SetMin(S) == CHOOSE x \in S : \A y \in S : x <= y

SetMax(S) == CHOOSE x \in S : \A y \in S : x >= y

\* s[i:j] of Go, 0 <= i <= j <= len(s)
Slice(s, i, j) == SubSeq(s, i + 1, j)

\* s[i:] of Go
SliceFrom(s, i) == SubSeq(s, i + 1, Len(s))

HasPrefix(s, p) == Len(p) <= Len(s) /\ SubSeq(s, 1, Len(p)) = p

HasSuffix(s, p) == Len(p) <= Len(s) /\ SubSeq(s, Len(s) - Len(p) + 1, Len(s)) = p

\* the 0-based positions at which sub occurs in s
Occurrences(s, sub) ==
  {i \in 0..(Len(s) - Len(sub)) : Slice(s, i, i + Len(sub)) = sub}

\* strings.Index: the first occurrence, or -1
Index(s, sub) ==
  IF Occurrences(s, sub) = {} THEN -1 ELSE SetMin(Occurrences(s, sub))

\* strings.LastIndex: the last occurrence, or -1
LastIndex(s, sub) ==
  IF Occurrences(s, sub) = {} THEN -1 ELSE SetMax(Occurrences(s, sub))

Contains(s, sub) == Occurrences(s, sub) # {}

\* strings.ContainsAny: some character of s is in the set chars
ContainsAny(s, chars) == \E i \in 1..Len(s) : s[i] \in chars

\* strings.Trim(s, cutset), cutset given as a set of characters
Trim(s, cutset) ==
  LET keep == {i \in 1..Len(s) : s[i] \notin cutset}
  IN  IF keep = {} THEN <<>> ELSE SubSeq(s, SetMin(keep), SetMax(keep))

SpaceChars == {" ", "\t", "\n"}

TrimSpace(s) == Trim(s, SpaceChars)

TrimPrefix(s, p) == IF HasPrefix(s, p) THEN SliceFrom(s, Len(p)) ELSE s

TrimSuffix(s, p) == IF HasSuffix(s, p) THEN Slice(s, 0, Len(s) - Len(p)) ELSE s

\* strings.SplitN(s, sep, 2)
SplitN2(s, sep) ==
  IF Index(s, sep) = -1 THEN <<s>>
  ELSE <<Slice(s, 0, Index(s, sep)), SliceFrom(s, Index(s, sep) + Len(sep))>>

RECURSIVE Split(_, _)
\* strings.Split(s, sep), sep not empty
Split(s, sep) ==
  IF Index(s, sep) = -1 THEN <<s>>
  ELSE <<Slice(s, 0, Index(s, sep))>> \o Split(SliceFrom(s, Index(s, sep) + Len(sep)), sep)

RECURSIVE Join(_, _)
\* strings.Join(parts, sep)
Join(parts, sep) ==
  IF Len(parts) = 0 THEN <<>>
  ELSE IF Len(parts) = 1 THEN parts[1]
  ELSE parts[1] \o sep \o Join(Tail(parts), sep)

RECURSIVE StrLess(_, _)
\* a < b of Go strings: bytewise lexicographic
StrLess(a, b) ==
  IF Len(b) = 0 THEN FALSE
  ELSE IF Len(a) = 0 THEN TRUE
  ELSE IF a[1] = b[1] THEN StrLess(Tail(a), Tail(b))
  ELSE Ord(a[1]) < Ord(b[1])

RECURSIVE SortStrings(_)
\* sort.Strings over the keys in the set S: the ascending sequence
SortStrings(S) ==
  IF S = {} THEN <<>>
  ELSE LET lo == CHOOSE x \in S : \A y \in S \ {x} : StrLess(x, y)
       IN  <<lo>> \o SortStrings(S \ {lo})

RECURSIVE DigitsValue(_)
\* the value of a string of decimal digits
DigitsValue(s) ==
  IF Len(s) = 0 THEN 0
  ELSE 10 * DigitsValue(SubSeq(s, 1, Len(s) - 1)) + DigitVal(s[Len(s)])

AllDigits(s) == \A i \in 1..Len(s) : IsDigit(s[i])

\* strconv.Atoi: an optional sign and at least one decimal digit
Atoi(s) ==
  LET signed == Len(s) > 0 /\ s[1] \in {"+", "-"}
      body == IF signed THEN Tail(s) ELSE s
  IN  IF Len(body) = 0 \/ ~AllDigits(body) THEN [ok |-> FALSE, n |-> 0]
      ELSE [ok |-> TRUE,
            n |-> IF signed /\ s[1] = "-" THEN 0 - DigitsValue(body)
                  ELSE DigitsValue(body)]

\* strconv.ParseFloat(s, 64) on decimal literals whose value is an integer:
\* an optional sign, digits, and an optional fraction of zeros.  The numbers
\* of the model are integers; literals with a nonzero fraction, an exponent,
\* a hexadecimal mantissa, or the words inf and nan are not among its inputs.
ParseFloat(s) ==
  LET signed == Len(s) > 0 /\ s[1] \in {"+", "-"}
      body == IF signed THEN Tail(s) ELSE s
      dot == Index(body, <<".">>)
      whole == IF dot = -1 THEN body ELSE Slice(body, 0, dot)
      frac == IF dot = -1 THEN <<>> ELSE SliceFrom(body, dot + 1)
  IN  IF Len(whole) + Len(frac) = 0 \/ ~AllDigits(whole) \/ ~AllDigits(frac)
         \/ DigitsValue(frac) # 0
      THEN [ok |-> FALSE, n |-> 0]
      ELSE [ok |-> TRUE,
            n |-> IF signed /\ s[1] = "-" THEN 0 - DigitsValue(whole)
                  ELSE DigitsValue(whole)]

RECURSIVE NatToStr(_)
NatToStr(n) ==
  IF n < 10 THEN <<Digits[n + 1]>>
  ELSE NatToStr(n \div 10) \o <<Digits[(n % 10) + 1]>>

\* strconv.Itoa, and %d and %v of an integral number
Itoa(n) == IF n < 0 THEN <<"-">> \o NatToStr(0 - n) ELSE NatToStr(n)

(***************************************************************************)
(* Go values: nil, bool, float64 / int / int64, string, []interface{},     *)
(* map[string]interface{}.                                                 *)
(***************************************************************************)
Null == [t |-> "null"]

Bool(b) == [t |-> "bool", b |-> b]

\* a number of Go type k ("float64", "int" or "int64") and value n
Num(k, n) == [t |-> "num", k |-> k, n |-> n]

F(n) == Num("float64", n)

Str(s) == [t |-> "str", s |-> s]

Arr(a) == [t |-> "arr", a |-> a]

\* m: a function from the keys (strings) to the values
Obj(m) == [t |-> "obj", m |-> m]

EmptyObj == Obj(<<>>)

\* the map with the single entry k: v
Entry(k, v) == [x \in {k} |-> v]

\* m with m[k] = v set
Put(m, k, v) == [x \in (DOMAIN m) \cup {k} |-> IF x = k THEN v ELSE m[x]]

\* a Go return (value, nil), (nil, error), or the end of the process in a
\* runtime panic or a stack overflow
Ok(v) == [k |-> "ok", v |-> v]

Err(e) == [k |-> "err", e |-> e]

Panic == [k |-> "panic"]

StackOverflow == [k |-> "overflow"]

\* the end of the process when the heap cannot hold what a loop appends
OutOfMemory == [k |-> "oom"]

RECURSIVE FmtV(_)
RECURSIVE FmtList(_, _)
\* the %v renderings of the values in vs[i..], joined by spaces
FmtList(vs, i) ==
  IF i > Len(vs) THEN <<>>
  ELSE FmtV(vs[i]) \o (IF i < Len(vs) THEN <<" ">> ELSE <<>>) \o FmtList(vs, i + 1)

\* fmt.Sprintf("%v", v)
FmtV(v) ==
  CASE v.t = "null" -> <<"<", "n", "i", "l", ">">>
    [] v.t = "bool" -> IF v.b THEN <<"t", "r", "u", "e">> ELSE <<"f", "a", "l", "s", "e">>
    [] v.t = "num" -> Itoa(v.n)
    [] v.t = "str" -> v.s
    [] v.t = "arr" -> <<"[">> \o FmtList(v.a, 1) \o <<"]">>
    [] v.t = "obj" ->
         LET ks == SortStrings(DOMAIN v.m)
         IN  <<"m", "a", "p", "[">> \o FmtList([i \in 1..Len(ks) |-> Str(ks[i] \o <<":">> \o FmtV(v.m[ks[i]]))], 1) \o <<"]">>

(***************************************************************************)
(* pkg/query/query.go                                                      *)
(***************************************************************************)
\* parseValue: a literal of the query language; it never fails
parseValue(s0) ==
  LET s == TrimSpace(s0)
  IN  IF s = <<"n", "u", "l", "l">> THEN Null
      ELSE IF s = <<"t", "r", "u", "e">> THEN Bool(TRUE)
      ELSE IF s = <<"f", "a", "l", "s", "e">> THEN Bool(FALSE)
      ELSE IF ParseFloat(s).ok THEN F(ParseFloat(s).n)
      ELSE IF HasPrefix(s, <<"\"">>) /\ HasSuffix(s, <<"\"">>) THEN Str(Trim(s, {"\""}))
      ELSE Str(s)

toNumber(v) == [ok |-> v.t = "num", n |-> IF v.t = "num" THEN v.n ELSE 0]

compareValues(left, right, op) ==
  IF toNumber(left).ok /\ toNumber(right).ok
  THEN LET l == toNumber(left).n
           r == toNumber(right).n
       IN  Ok(Bool(CASE op = <<">">> -> l > r
                     [] op = <<"<">> -> l < r
                     [] op = <<">", "=">> -> l >= r
                     [] op = <<"<", "=">> -> l <= r
                     [] op = <<"=", "=">> -> l = r
                     [] op = <<"!", "=">> -> l # r))
  ELSE IF op = <<"=", "=">> THEN Ok(Bool(FmtV(left) = FmtV(right)))
  ELSE IF op = <<"!", "=">> THEN Ok(Bool(FmtV(left) # FmtV(right)))
  ELSE Err("cannot compare values with operator %s")

\* a mutation of isTruthy: false counts as truthy
isTruthyButNull(val) == val.t # "null"

isTruthy(val) ==
  IF val.t = "null" THEN FALSE
  ELSE IF val.t = "bool" THEN val.b
  ELSE TRUE

RECURSIVE splitScan(_, _, _, _, _, _)
\* the loop shared by splitByComma and splitPipe: character i of s, at
\* nesting depth depth, with the part being built and the parts so far
splitScan(s, sep, i, depth, current, parts) ==
  IF i > Len(s)
  THEN IF Len(current) > 0 THEN Append(parts, current) ELSE parts
  ELSE IF s[i] \in {"(", "[", "{"}
       THEN splitScan(s, sep, i + 1, depth + 1, Append(current, s[i]), parts)
  ELSE IF s[i] \in {")", "]", "}"}
       THEN splitScan(s, sep, i + 1, depth - 1, Append(current, s[i]), parts)
  ELSE IF s[i] = sep /\ depth = 0
       THEN splitScan(s, sep, i + 1, depth, <<>>, Append(parts, current))
  ELSE splitScan(s, sep, i + 1, depth, Append(current, s[i]), parts)

splitByComma(s) == splitScan(s, ",", 1, 0, <<>>, <<>>)

splitPipe(q) == splitScan(q, "|", 1, 0, <<>>, <<>>)

RECURSIVE splitByStringScan(_, _, _, _, _, _)
\* the loop of splitByString, i the 0-based position in s
splitByStringScan(s, sep, i, depth, current, parts) ==
  IF i >= Len(s)
  THEN IF Len(current) > 0 THEN Append(parts, current) ELSE parts
  ELSE IF depth = 0 /\ i + Len(sep) <= Len(s) /\ Slice(s, i, i + Len(sep)) = sep
       THEN splitByStringScan(s, sep, i + Len(sep), depth, <<>>, Append(parts, current))
  ELSE LET ch == s[i + 1]
           nd == IF ch \in {"(", "[", "{"} THEN depth + 1
                 ELSE IF ch \in {")", "]", "}"} THEN depth - 1
                 ELSE depth
       IN  splitByStringScan(s, sep, i + 1, nd, Append(current, ch), parts)

splitByString(s, sep) == splitByStringScan(s, sep, 0, 0, <<>>, <<>>)

RECURSIVE executeFieldAccess(_, _)
RECURSIVE executeArrayIndex(_, _)
RECURSIVE fieldWalk(_, _, _)
RECURSIVE fieldOfEach(_, _, _, _)

\* executeFieldAccess, the loop over the dot-separated parts of the path
fieldWalk(parts, i, current) ==
  IF i > Len(parts) THEN Ok(current)
  ELSE IF parts[i] = <<>> THEN fieldWalk(parts, i + 1, current)
  ELSE IF current.t = "obj"
       THEN IF parts[i] \in DOMAIN current.m
            THEN fieldWalk(parts, i + 1, current.m[parts[i]])
            ELSE Ok(Null)
  ELSE Err("cannot access field '%s' on non-object")

\* executeFieldAccess, the loop applying the path after [] to each element
fieldOfEach(afterArray, arr, i, results) ==
  IF i > Len(arr) THEN Ok(Arr(results))
  ELSE LET r == executeFieldAccess(<<".">> \o afterArray, arr[i])
       IN  IF r.k # "ok" THEN r
           ELSE fieldOfEach(afterArray, arr, i + 1, Append(results, r.v))

executeFieldAccess(q, d) ==
  LET path == TrimPrefix(q, <<".">>)
  IN  IF Contains(path, <<"[", "]">>)
      THEN LET parts == SplitN2(path, <<"[", "]">>)
               beforeArray == parts[1]
               afterArray == IF Len(parts) > 1 THEN TrimPrefix(parts[2], <<".">>) ELSE <<>>
               got == IF beforeArray = <<>>
                      THEN IF d.t = "arr" THEN Ok(d) ELSE Err("data is not an array")
                      ELSE LET r == executeFieldAccess(<<".">> \o beforeArray, d)
                           IN  IF r.k # "ok" THEN r
                               ELSE IF r.v.t = "arr" THEN r
                               ELSE Err("field '%s' is not an array")
           IN  IF got.k # "ok" THEN got
               ELSE IF afterArray # <<>> THEN fieldOfEach(afterArray, got.v.a, 1, <<>>)
               ELSE got
      ELSE IF Contains(path, <<"[">>) THEN executeArrayIndex(path, d)
      ELSE fieldWalk(Split(path, <<".">>), 1, d)

\* a mutation of negativeIndex: a negative index is left as it is
negativeIndexKept(index, length) == index

\* executeArrayIndex, the handling of negative indices
negativeIndex(index, length) == IF index < 0 THEN length + index ELSE index

executeArrayIndex(path, d) ==
  LET bracketStart == Index(path, <<"[">>)
      bracketEnd == Index(path, <<"]">>)
  IN  IF bracketStart = -1 THEN Err("no array index found in path: %s")
      ELSE IF bracketEnd = -1 THEN Err("unclosed bracket in path: %s")
      ELSE IF bracketStart + 1 > bracketEnd THEN Panic
      ELSE
        LET fieldPart == IF bracketStart > 0 THEN Slice(path, 0, bracketStart) ELSE <<>>
            indexStr == Slice(path, bracketStart + 1, bracketEnd)
            remainingPath == IF bracketEnd + 1 < Len(path)
                             THEN TrimPrefix(SliceFrom(path, bracketEnd + 1), <<".">>)
                             ELSE <<>>
            got == IF fieldPart # <<>>
                   THEN LET r == executeFieldAccess(<<".">> \o fieldPart, d)
                        IN  IF r.k # "ok" THEN r
                            ELSE IF r.v.t = "arr" THEN r
                            ELSE Err("field '%s' is not an array")
                   ELSE IF d.t = "arr" THEN Ok(d) ELSE Err("data is not an array")
        IN  IF got.k # "ok" THEN got
            ELSE IF ~Atoi(indexStr).ok THEN Err("invalid array index '%s': %w")
            ELSE LET arr == got.v.a
                     index == negativeIndex(Atoi(indexStr).n, Len(arr))
                 IN  IF index < 0 \/ index >= Len(arr)
                     THEN Err("array index out of bounds: %d (array length: %d)")
                     ELSE IF remainingPath # <<>>
                          THEN executeFieldAccess(<<".">> \o remainingPath, arr[index + 1])
                          ELSE Ok(arr[index + 1])

executeArrayIteration(q0, d) ==
  LET q == TrimSpace(q0)
  IN  IF q = <<".", "[", "]">>
      THEN IF d.t = "arr" THEN Ok(d) ELSE Err("data is not an array")
      ELSE LET r == executeFieldAccess(TrimSuffix(q, <<"[", "]">>), d)
           IN  IF r.k # "ok" THEN r
               ELSE IF r.v.t = "arr" THEN r
               ELSE Err("field is not an array")

\* funcLength; len() of an array, a map or a string is a Go int
funcLength(d) ==
  IF d.t = "null" THEN Ok(Num("int", 0))
  ELSE IF d.t = "arr" THEN Ok(Num("int", Len(d.a)))
  ELSE IF d.t = "obj" THEN Ok(Num("int", Cardinality(DOMAIN d.m)))
  ELSE IF d.t = "str" THEN Ok(Num("int", Len(d.s)))
  ELSE Err("length not supported for type %T")

funcKeys(d) ==
  IF d.t = "obj"
  THEN LET ks == SortStrings(DOMAIN d.m)
       IN  Ok(Arr([i \in 1..Len(ks) |-> Str(ks[i])]))
  ELSE IF d.t = "arr" THEN Ok(Arr([i \in 1..Len(d.a) |-> Num("int", i - 1)]))
  ELSE Err("keys not supported for type %T")

funcValues(d) ==
  IF d.t = "obj"
  THEN LET ks == SortStrings(DOMAIN d.m)
       IN  Ok(Arr([i \in 1..Len(ks) |-> d.m[ks[i]]]))
  ELSE IF d.t = "arr" THEN Ok(d)
  ELSE Err("values not supported for type %T")

funcType(d) ==
  Ok(Str(CASE d.t = "null" -> <<"n", "u", "l", "l">>
           [] d.t = "bool" -> <<"b", "o", "o", "l", "e", "a", "n">>
           [] d.t = "num" -> <<"n", "u", "m", "b", "e", "r">>
           [] d.t = "str" -> <<"s", "t", "r", "i", "n", "g">>
           [] d.t = "arr" -> <<"a", "r", "r", "a", "y">>
           [] d.t = "obj" -> <<"o", "b", "j", "e", "c", "t">>))

funcReverse(d) ==
  IF d.t # "arr" THEN Err("reverse requires an array")
  ELSE Ok(Arr([i \in 1..Len(d.a) |-> d.a[Len(d.a) + 1 - i]]))

funcHas(key0, d) ==
  LET key == Trim(TrimSpace(key0), {"\""})
  IN  IF d.t # "obj" THEN Ok(Bool(FALSE))
      ELSE Ok(Bool(key \in DOMAIN d.m))

funcStartsWith(prefix0, d) ==
  LET prefix == Trim(TrimSpace(prefix0), {"\""})
  IN  IF d.t # "str" THEN Ok(Bool(FALSE))
      ELSE Ok(Bool(HasPrefix(d.s, prefix)))

funcEndsWith(suffix0, d) ==
  LET suffix == Trim(TrimSpace(suffix0), {"\""})
  IN  IF d.t # "str" THEN Ok(Bool(FALSE))
      ELSE Ok(Bool(HasSuffix(d.s, suffix)))

funcContains(substring0, d) ==
  LET substring == Trim(TrimSpace(substring0), {"\""})
  IN  IF d.t # "str" THEN Ok(Bool(FALSE))
      ELSE Ok(Bool(Contains(d.s, substring)))

funcToNumber(d) ==
  IF d.t = "num" /\ d.k = "float64" THEN Ok(d)
  ELSE IF d.t = "str"
       THEN IF ParseFloat(d.s).ok THEN Ok(F(ParseFloat(d.s).n))
            ELSE Err("tonumber: cannot parse '%s' as number: %w")
  ELSE IF d.t = "bool" THEN Ok(F(IF d.b THEN 1 ELSE 0))
  ELSE IF d.t = "null" THEN Err("tonumber: cannot convert null to number")
  ELSE Err("tonumber: cannot convert %T to number")

(***************************************************************************)
(* funcRange computes with Go's int: 64 bits, two's complement, wrapping   *)
(* on overflow.  An int is held here as four 16-bit limbs, lowest first.   *)
(***************************************************************************)
RECURSIVE magnitude64(_)
\* the value of a string of decimal digits, and whether it stays below 2^64
magnitude64(s) ==
  IF s = <<>> THEN [ok |-> TRUE, n |-> <<0, 0, 0, 0>>]
  ELSE LET m == magnitude64(SubSeq(s, 1, Len(s) - 1))
           s0 == m.n[1] * 10 + DigitVal(s[Len(s)])
           s1 == m.n[2] * 10 + s0 \div 65536
           s2 == m.n[3] * 10 + s1 \div 65536
           s3 == m.n[4] * 10 + s2 \div 65536
       IN  [ok |-> m.ok /\ s3 < 65536,
            n |-> <<s0 % 65536, s1 % 65536, s2 % 65536, s3 % 65536>>]

\* strconv.Atoi with its range check: the value must fit in 64 bits
atoi64(s) ==
  LET signed == Len(s) > 0 /\ s[1] \in {"+", "-"}
      body == IF signed THEN Tail(s) ELSE s
      m == magnitude64(body)
      c0 == 65536 - m.n[1]
      c1 == 65535 - m.n[2] + c0 \div 65536
      c2 == 65535 - m.n[3] + c1 \div 65536
      c3 == 65535 - m.n[4] + c2 \div 65536
      negated == <<c0 % 65536, c1 % 65536, c2 % 65536, c3 % 65536>>
  IN  IF Len(body) = 0 \/ ~AllDigits(body) \/ ~m.ok THEN [ok |-> FALSE, n |-> <<0, 0, 0, 0>>]
      ELSE IF signed /\ s[1] = "-"
           THEN [ok |-> m.n[4] < 32768 \/ m.n = <<0, 0, 0, 32768>>, n |-> negated]
      ELSE [ok |-> m.n[4] < 32768, n |-> m.n]

RECURSIVE rangeLoop(_, _, _, _)
\* for i := from; i < to; i += step { result = append(result, i) }, and the
\* same with i > to when step is negative
rangeLoop(i, to, step, room) ==
  LET key(x) == <<(x[4] + 32768) % 65536, x[3], x[2], x[1]>>
      less(x, y) ==
        \E j \in 1..4 : key(x)[j] < key(y)[j] /\ \A h \in 1..(j - 1) : key(x)[h] = key(y)[h]
      s0 == i[1] + step[1]
      s1 == i[2] + step[2] + s0 \div 65536
      s2 == i[3] + step[3] + s1 \div 65536
      s3 == i[4] + step[4] + s2 \div 65536
      next == <<s0 % 65536, s1 % 65536, s2 % 65536, s3 % 65536>>
      value == IF i[4] = 0 /\ i[3] = 0 /\ i[2] < 16384 THEN i[2] * 65536 + i[1]
               ELSE IF i[4] = 65535 /\ i[3] = 65535 /\ i[2] >= 49152
                    THEN (i[2] - 65536) * 65536 + i[1]
               ELSE i
      rest == rangeLoop(next, to, step, room - 1)
  IN  IF (less(<<0, 0, 0, 0>>, step) /\ less(i, to))
         \/ (~less(<<0, 0, 0, 0>>, step) /\ less(to, i))
      THEN IF room = 0 THEN OutOfMemory
           ELSE IF rest.k = "ok" THEN Ok(Arr(<<Num("int", value)>> \o rest.v.a))
           ELSE rest
      ELSE Ok(Arr(<<>>))

funcRange(argsStr) ==
  LET args == Split(argsStr, <<";">>)
      arg(j) == atoi64(TrimSpace(args[j]))
      zero == <<0, 0, 0, 0>>
      one == <<1, 0, 0, 0>>
  IN  CASE Len(args) = 1 ->
             IF argsStr = <<>> THEN Err("range requires at least one argument")
             ELSE IF ~atoi64(TrimSpace(argsStr)).ok THEN Err("range: invalid argument: %w")
             ELSE rangeLoop(zero, atoi64(TrimSpace(argsStr)).n, one, MaxRange)
        [] Len(args) = 2 ->
             IF ~arg(1).ok THEN Err("range: invalid 'from': %w")
             ELSE IF ~arg(2).ok THEN Err("range: invalid 'to': %w")
             ELSE rangeLoop(arg(1).n, arg(2).n, one, MaxRange)
        [] Len(args) = 3 ->
             IF ~arg(1).ok THEN Err("range: invalid 'from': %w")
             ELSE IF ~arg(2).ok THEN Err("range: invalid 'to': %w")
             ELSE IF ~arg(3).ok THEN Err("range: invalid 'step': %w")
             ELSE IF arg(3).n = zero THEN Err("range: step cannot be zero")
             ELSE rangeLoop(arg(1).n, arg(2).n, arg(3).n, MaxRange)
        [] OTHER -> Err("range: too many arguments")

\* a comparison that puts the larger value first
compareForSortDescending(a, b) ==
  IF a.t = "null" /\ b.t = "null" THEN 0
  ELSE IF a.t = "null" THEN 1
  ELSE IF b.t = "null" THEN -1
  ELSE IF toNumber(a).ok /\ toNumber(b).ok
       THEN (IF toNumber(a).n < toNumber(b).n THEN 1
             ELSE IF toNumber(a).n > toNumber(b).n THEN -1 ELSE 0)
  ELSE IF StrLess(FmtV(a), FmtV(b)) THEN 1
  ELSE IF StrLess(FmtV(b), FmtV(a)) THEN -1
  ELSE 0

compareForSort(a, b) ==
  IF a.t = "null" /\ b.t = "null" THEN 0
  ELSE IF a.t = "null" THEN -1
  ELSE IF b.t = "null" THEN 1
  ELSE IF toNumber(a).ok /\ toNumber(b).ok
       THEN (IF toNumber(a).n < toNumber(b).n THEN -1
             ELSE IF toNumber(a).n > toNumber(b).n THEN 1 ELSE 0)
  ELSE IF StrLess(FmtV(a), FmtV(b)) THEN -1
  ELSE IF StrLess(FmtV(b), FmtV(a)) THEN 1
  ELSE 0

RECURSIVE sortSlice(_, _, _)
\* sort.Slice with less(i, j) = compareForSort(s[i], s[j]) < 0 on a slice of
\* at most six elements, which the library sorts by insertion:
\* for i := 1; i < n; i++ { for j := i; j > 0 && less(j, j-1); j-- { swap } }
\* (positions from 1 here: the element at i has been moved down to j)
sortSlice(s, i, j) ==
  IF i > Len(s) THEN s
  ELSE IF j > 1 /\ compareForSort(s[j], s[j - 1]) < 0
       THEN sortSlice([s EXCEPT ![j] = s[j - 1], ![j - 1] = s[j]], i, j - 1)
  ELSE sortSlice(s, i + 1, i + 1)

\* sorted := arr: the same backing array as the input
sortedInPlace(arr) == [a |-> arr, shared |-> TRUE]

\* sorted := make([]interface{}, len(arr)); copy(sorted, arr): the elements
\* of arr in a backing array of its own
sorted(arr) == [a |-> arr, shared |-> FALSE]

funcSort(d) ==
  IF d.t # "arr" THEN Err("sort requires an array")
  ELSE Ok(Arr(sortSlice(sorted(d.a).a, 2, 2)))

\* the input of funcSort when it returns: sort.Slice swaps the elements of
\* sorted, which are those of arr when the two share their backing array
funcSortInput(d) ==
  IF d.t = "arr" /\ sorted(d.a).shared THEN Arr(sortSlice(d.a, 2, 2)) ELSE d
RECURSIVE executeQuery(_, _, _)
RECURSIVE executePipe(_, _, _)
RECURSIVE pipeLoop(_, _, _, _)
RECURSIVE pipeEach(_, _, _, _, _)
RECURSIVE executeSelect(_, _, _)
RECURSIVE evaluateCondition(_, _, _)
RECURSIVE executeArrayConstruction(_, _, _)
RECURSIVE executeObjectConstruction(_, _, _)
RECURSIVE objectPairs(_, _, _, _, _)
RECURSIVE executeFunction(_, _, _)
RECURSIVE funcMap(_, _, _)
RECURSIVE funcIn(_, _, _)
RECURSIVE mapLoop(_, _, _, _, _)
RECURSIVE executeIf(_, _, _)
RECURSIVE executeAlternative(_, _, _)
RECURSIVE alternativeLoop(_, _, _, _)

\* executeQuery; fuel is the room left on the goroutine stack, in calls
executeQuery(q, d, fuel) ==
  IF fuel = 0 THEN StackOverflow
  ELSE IF HasPrefix(q, <<"[">>) /\ HasSuffix(q, <<"]">>)
       THEN executeArrayConstruction(q, d, fuel - 1)
  ELSE IF HasPrefix(q, <<"i", "f", " ">>) THEN executeIf(q, d, fuel - 1)
  ELSE IF Contains(q, <<"/", "/">>) THEN executeAlternative(q, d, fuel - 1)
  ELSE IF HasPrefix(q, <<"{">>) /\ HasSuffix(q, <<"}">>)
       THEN executeObjectConstruction(q, d, fuel - 1)
  ELSE IF Contains(q, <<"|">>) THEN executePipe(q, d, fuel - 1)
  ELSE IF Contains(q, <<"[", "]">>) THEN executeArrayIteration(q, d)
  ELSE IF HasPrefix(q, <<"s", "e", "l", "e", "c", "t", "(">>) THEN executeSelect(q, d, fuel - 1)
  ELSE IF Contains(q, <<"(">>) /\ ~HasPrefix(q, <<".">>) THEN executeFunction(q, d, fuel - 1)
  ELSE IF HasPrefix(q, <<".">>) /\ ~Contains(q, <<"(">>) THEN executeFieldAccess(q, d)
  ELSE Ok(parseValue(q))

\* executePipe, the loop applying part to each element of the array arr;
\* a nil result is left out
pipeEach(part, arr, i, results, fuel) ==
  IF i > Len(arr) THEN Ok(Arr(results))
  ELSE LET r == executeQuery(part, arr[i], fuel)
       IN  IF r.k # "ok" THEN r
           ELSE pipeEach(part, arr, i + 1,
                         IF r.v # Null THEN Append(results, r.v) ELSE results, fuel)

\* executePipe, the loop over the parts: part i with the result so far
pipeLoop(parts, i, res, fuel) ==
  IF i > Len(parts) THEN Ok(res)
  ELSE LET part == TrimSpace(parts[i])
           r == IF res.t = "arr" /\ i > 1 /\ Contains(parts[i - 1], <<"[", "]">>)
                THEN pipeEach(part, res.a, 1, <<>>, fuel)
                ELSE executeQuery(part, res, fuel)
       IN  IF r.k # "ok" THEN r ELSE pipeLoop(parts, i + 1, r.v, fuel)

executePipe(q, d, fuel) == pipeLoop(splitPipe(q), 1, d, fuel)

executeSelect(q, d, fuel) ==
  IF ~HasPrefix(q, <<"s", "e", "l", "e", "c", "t", "(">>) \/ ~HasSuffix(q, <<")">>)
  THEN Err("invalid select syntax")
  ELSE LET r == evaluateCondition(Slice(q, 7, Len(q) - 1), d, fuel)
       IN  IF r.k # "ok" THEN r
           ELSE IF r.v.b THEN Ok(d)
           ELSE Ok(Null)

\* evaluateCondition; the outcome holds the Go bool as a Bool
evaluateCondition(condition, d, fuel) ==
  LET operators == <<<<">", "=">>, <<"<", "=">>, <<"=", "=">>, <<"!", "=">>, <<">">>, <<"<">>>>
      found == {i \in 1..Len(operators) : Contains(condition, operators[i])}
  IN  IF found = {} THEN Err("unsupported condition: %s")
      ELSE LET op == operators[SetMin(found)]
               parts == SplitN2(condition, op)
               leftVal == executeQuery(TrimSpace(parts[1]), d, fuel)
           IN  IF leftVal.k # "ok" THEN leftVal
               ELSE compareValues(leftVal.v, parseValue(TrimSpace(parts[2])), op)

executeArrayConstruction(q, d, fuel) ==
  LET inner == TrimPrefix(TrimSuffix(q, <<"]">>), <<"[">>)
  IN  IF inner = <<>> THEN Ok(Arr(<<>>))
      ELSE LET r == executeQuery(inner, d, fuel)
           IN  IF r.k # "ok" THEN r
               ELSE IF r.v.t = "arr" THEN r
               ELSE Ok(Arr(<<r.v>>))

\* executeObjectConstruction, the loop over the pairs
objectPairs(pairs, i, obj, d, fuel) ==
  IF i > Len(pairs) THEN Ok(Obj(obj))
  ELSE LET pair == TrimSpace(pairs[i])
       IN  IF pair = <<>> THEN objectPairs(pairs, i + 1, obj, d, fuel)
           ELSE IF Contains(pair, <<":">>)
           THEN LET parts == SplitN2(pair, <<":">>)
                    key == TrimSpace(parts[1])
                    r == executeQuery(TrimSpace(parts[2]), d, fuel)
                IN  IF r.k = "err" THEN Err("object construction: evaluating '%s': %w")
                    ELSE IF r.k # "ok" THEN r
                    ELSE objectPairs(pairs, i + 1, Put(obj, key, r.v), d, fuel)
           ELSE LET r == executeFieldAccess(<<".">> \o pair, d)
                IN  IF r.k = "err" THEN Err("object construction: accessing field '%s': %w")
                    ELSE IF r.k # "ok" THEN r
                    ELSE objectPairs(pairs, i + 1, Put(obj, pair, r.v), d, fuel)

executeObjectConstruction(q, d, fuel) ==
  LET inner == TrimSpace(TrimPrefix(TrimSuffix(q, <<"}">>), <<"{">>))
  IN  IF inner = <<>> THEN Ok(EmptyObj)
      ELSE objectPairs(splitByComma(inner), 1, <<>>, d, fuel)

\* funcMap, the loop over the elements
mapLoop(expr, arr, i, res, fuel) ==
  IF i > Len(arr) THEN Ok(Arr(res))
  ELSE LET r == executeQuery(TrimSpace(expr), arr[i], fuel)
       IN  IF r.k = "err" THEN Err("map error at index %d: %w")
           ELSE IF r.k # "ok" THEN r
           ELSE mapLoop(expr, arr, i + 1, Append(res, r.v), fuel)

funcMap(expr, d, fuel) ==
  IF d.t # "arr" THEN Err("map requires an array")
  ELSE mapLoop(expr, d.a, 1, <<>>, fuel)

funcIn(container, d, fuel) ==
  LET c == executeQuery(TrimSpace(container), d, fuel)
  IN  IF c.k # "ok" THEN c
      ELSE IF c.v.t = "arr"
           THEN Ok(Bool(\E i \in 1..Len(c.v.a) : FmtV(c.v.a[i]) = FmtV(d)))
      ELSE IF c.v.t = "obj"
           THEN Ok(Bool(\E key \in DOMAIN c.v.m : FmtV(c.v.m[key]) = FmtV(d)))
      ELSE Ok(Bool(FALSE))

\* the built-in functions that the queries of the model do not call
OtherBuiltins ==
  {<<"s", "o", "r", "t", "_", "b", "y">>, <<"g", "r", "o", "u", "p", "_", "b", "y">>, <<"s", "p", "l", "i", "t">>, <<"j", "o", "i", "n">>,
   <<"a", "d", "d">>, <<"m", "i", "n">>, <<"m", "a", "x">>, <<"f", "l", "o", "o", "r">>, <<"c", "e", "i", "l">>,
   <<"r", "o", "u", "n", "d">>, <<"u", "n", "i", "q", "u", "e">>, <<"f", "l", "a", "t", "t", "e", "n">>, <<"f", "i", "r", "s", "t">>, <<"l", "a", "s", "t">>, <<"t", "o", "s", "t", "r", "i", "n", "g">>,
   <<"l", "t", "r", "i", "m", "s", "t", "r">>, <<"r", "t", "r", "i", "m", "s", "t", "r">>, <<"t", "o", "_", "e", "n", "t", "r", "i", "e", "s">>, <<"f", "r", "o", "m", "_", "e", "n", "t", "r", "i", "e", "s">>,
   <<"w", "i", "t", "h", "_", "e", "n", "t", "r", "i", "e", "s">>}

executeFunction(q, d, fuel) ==
  LET parenIdx == Index(q, <<"(">>)
  IN  IF parenIdx = -1 THEN Err("invalid function syntax: %s")
      ELSE LET funcName == TrimSpace(Slice(q, 0, parenIdx))
               rest == SliceFrom(q, parenIdx + 1)
               argsStr == TrimSuffix(rest, <<")">>)
           IN  IF ~HasSuffix(rest, <<")">>) THEN Err("unclosed function parenthesis: %s")
               ELSE CASE funcName = <<"l", "e", "n", "g", "t", "h">> -> funcLength(d)
                      [] funcName = <<"k", "e", "y", "s">> -> funcKeys(d)
                      [] funcName = <<"v", "a", "l", "u", "e", "s">> -> funcValues(d)
                      [] funcName = <<"t", "y", "p", "e">> -> funcType(d)
                      [] funcName = <<"m", "a", "p">> -> funcMap(argsStr, d, fuel)
                      [] funcName = <<"r", "e", "v", "e", "r", "s", "e">> -> funcReverse(d)
                      [] funcName = <<"h", "a", "s">> -> funcHas(argsStr, d)
                      [] funcName = <<"i", "n">> -> funcIn(argsStr, d, fuel)
                      [] funcName = <<"s", "t", "a", "r", "t", "s", "w", "i", "t", "h">> -> funcStartsWith(argsStr, d)
                      [] funcName = <<"e", "n", "d", "s", "w", "i", "t", "h">> -> funcEndsWith(argsStr, d)
                      [] funcName = <<"c", "o", "n", "t", "a", "i", "n", "s">> -> funcContains(argsStr, d)
                      [] funcName = <<"t", "o", "n", "u", "m", "b", "e", "r">> -> funcToNumber(d)
                      [] funcName = <<"s", "o", "r", "t">> -> funcSort(d)
                      [] funcName = <<"r", "a", "n", "g", "e">> -> funcRange(argsStr)
                      [] funcName \in OtherBuiltins -> Err("built-in outside the model")
                      [] OTHER -> Err("unknown function: %s")

executeIf(q, d, fuel) ==
  IF ~HasSuffix(q, <<" ", "e", "n", "d">>) THEN Err("if statement must end with 'end'")
  ELSE IF 3 > Len(q) - 4 THEN Panic
  ELSE
    LET inner == Slice(q, 3, Len(q) - 4)
        thenIdx == Index(inner, <<" ", "t", "h", "e", "n", " ">>)
        condStr == TrimSpace(Slice(inner, 0, thenIdx))
        rest == SliceFrom(inner, thenIdx + 6)
        elseIdx == LastIndex(rest, <<" ", "e", "l", "s", "e", " ">>)
        trueBranch == TrimSpace(Slice(rest, 0, elseIdx))
        falseBranch == TrimSpace(SliceFrom(rest, elseIdx + 6))
        cond == IF ContainsAny(condStr, {">", "<", "="})
                THEN evaluateCondition(condStr, d, fuel)
                ELSE LET val == executeQuery(condStr, d, fuel)
                     IN  IF val.k # "ok" THEN val ELSE Ok(Bool(isTruthy(val.v)))
    IN  IF thenIdx = -1 THEN Err("if statement missing 'then'")
        ELSE IF elseIdx = -1 THEN Err("if statement missing 'else'")
        ELSE IF cond.k # "ok" THEN cond
        ELSE IF cond.v.b THEN executeQuery(trueBranch, d, fuel)
        ELSE executeQuery(falseBranch, d, fuel)

\* executeAlternative, the loop over the parts
alternativeLoop(parts, i, d, fuel) ==
  IF i > Len(parts)
  THEN IF Len(parts) > 0
       THEN executeQuery(TrimSpace(parts[Len(parts)]), d, fuel)
       ELSE Ok(Null)
  ELSE LET r == executeQuery(TrimSpace(parts[i]), d, fuel)
       IN  IF r.k = "ok" /\ isTruthy(r.v) THEN r
           ELSE IF r.k # "ok" THEN r
           ELSE alternativeLoop(parts, i + 1, d, fuel)

executeAlternative(q, d, fuel) == alternativeLoop(splitByString(q, <<"/", "/">>), 1, d, fuel)

\* a mutation of Execute: the query is not trimmed
ExecuteUntrimmed(q0, d) ==
  IF q0 = <<".">> THEN Ok(d) ELSE executeQuery(q0, d, MaxDepth)

\* Engine.Execute
Execute(q0, d) ==
  LET q == TrimSpace(q0)
  IN  IF q = <<".">> THEN Ok(d) ELSE executeQuery(q, d, MaxDepth)

\* the input value when Execute returns.  The evaluator assigns to elements
\* and fields only in values it has allocated in the same function
\* (query.go:415, 423, 790, 847, 872, 883, 982, 1000, 1483) and appends only
\* to slices it has made; the in-place routines of the library are
\* sort.Strings, on fresh slices of keys, and sort.Slice, in funcSort on
\* sorted and in funcSortBy on items.  The input can change where funcSort
\* is given the input itself: executeQuery passes the trimmed query to
\* executeFunction when no earlier form matches it.
inputAfter(q, d) ==
  LET tq == TrimSpace(q)
      parenIdx == Index(tq, <<"(">>)
  IN  IF /\ ~(HasPrefix(tq, <<"[">>) /\ HasSuffix(tq, <<"]">>))
         /\ ~HasPrefix(tq, <<"i", "f", " ">>)
         /\ ~Contains(tq, <<"/", "/">>)
         /\ ~(HasPrefix(tq, <<"{">>) /\ HasSuffix(tq, <<"}">>))
         /\ ~Contains(tq, <<"|">>)
         /\ ~Contains(tq, <<"[", "]">>)
         /\ ~HasPrefix(tq, <<"s", "e", "l", "e", "c", "t", "(">>)
         /\ Contains(tq, <<"(">>) /\ ~HasPrefix(tq, <<".">>)
         /\ TrimSpace(Slice(tq, 0, parenIdx)) = <<"s", "o", "r", "t">>
         /\ HasSuffix(tq, <<")">>)
      THEN funcSortInput(d)
      ELSE d
(***************************************************************************)
(* pkg/toon/toon.go: the encoder.  No input makes Encode return an error   *)
(* (encodeTabularArray is only called on arrays that isUniformArray        *)
(* accepts), so the encoding operators return the text.                    *)
(***************************************************************************)
DefaultOptions == [Indent |-> 2, Delimiter |-> <<",">>, UseTab |-> FALSE]

RECURSIVE Repeat(_, _)
\* strings.Repeat
Repeat(s, n) == IF n <= 0 THEN <<>> ELSE s \o Repeat(s, n - 1)

RECURSIVE ReplaceAll(_, _, _)
\* strings.ReplaceAll(s, old, new), old not empty
ReplaceAll(s, old, new) ==
  IF Index(s, old) = -1 THEN s
  ELSE Slice(s, 0, Index(s, old)) \o new
       \o ReplaceAll(SliceFrom(s, Index(s, old) + Len(old)), old, new)

\* a mutation of makeIndent: no indentation
makeIndentNone(depth, opts) == <<>>

makeIndent(depth, opts) ==
  IF depth = 0 THEN <<>>
  ELSE IF opts.UseTab THEN Repeat(<<"\t">>, depth)
  ELSE Repeat(<<" ">>, depth * opts.Indent)

looksLikeNumber(s) == s # <<>> /\ ParseFloat(s).ok

encodeString(s, delimiter) ==
  LET needsQuote == \/ HasPrefix(s, <<" ">>)
                    \/ HasSuffix(s, <<" ">>)
                    \/ Contains(s, delimiter)
                    \/ Contains(s, <<":">>)
                    \/ Contains(s, <<"\n">>)
                    \/ s = <<"t", "r", "u", "e">> \/ s = <<"f", "a", "l", "s", "e">> \/ s = <<"n", "u", "l", "l">>
                    \/ HasPrefix(s, <<"-">>)
                    \/ looksLikeNumber(s)
  IN  IF needsQuote THEN <<"\"">> \o ReplaceAll(s, <<"\"">>, <<"\\", "\"">>) \o <<"\"">>
      ELSE s

\* no array is taken as uniform
isUniformArrayNever(arr) == FALSE

isUniformArray(arr) ==
  /\ Len(arr) > 0
  /\ arr[1].t = "obj"
  /\ \A i \in 2..Len(arr) :
       /\ arr[i].t = "obj"
       /\ Cardinality(DOMAIN arr[i].m) = Cardinality(DOMAIN arr[1].m)
       /\ \A key \in DOMAIN arr[1].m : key \in DOMAIN arr[i].m

isAllPrimitives(arr) == \A i \in 1..Len(arr) : arr[i].t \notin {"obj", "arr"}

encodePrimitiveArray(arr, opts) ==
  LET values == [i \in 1..Len(arr) |->
                   IF arr[i].t = "str" THEN encodeString(arr[i].s, opts.Delimiter)
                   ELSE FmtV(arr[i])]
  IN  <<"[">> \o Itoa(Len(arr)) \o <<"]", ":", " ">> \o Join(values, opts.Delimiter)

encodeTabularArray(arr, opts, depth) ==
  IF Len(arr) = 0 THEN <<"[", "0", "]", ":">>
  ELSE
    LET fields == SortStrings(DOMAIN arr[1].m)
        header == <<"[">> \o Itoa(Len(arr)) \o <<"]", "{">> \o Join(fields, opts.Delimiter) \o <<"}", ":">>
        cell(val) == IF val.t = "str" THEN encodeString(val.s, opts.Delimiter)
                     ELSE IF val.t = "null" THEN <<"n", "u", "l", "l">>
                     ELSE FmtV(val)
        row(obj) == makeIndent(depth, opts)
                    \o Join([j \in 1..Len(fields) |-> cell(obj.m[fields[j]])], opts.Delimiter)
    IN  header \o <<"\n">> \o Join([i \in 1..Len(arr) |-> row(arr[i])], <<"\n">>)

RECURSIVE encode(_, _, _)
RECURSIVE encodeObject(_, _, _)
RECURSIVE encodeArray(_, _, _)
RECURSIVE encodeMixedArray(_, _, _)

encode(v, opts, depth) ==
  CASE v.t = "null" -> <<"n", "u", "l", "l">>
    [] v.t = "obj" -> encodeObject(v.m, opts, depth)
    [] v.t = "arr" -> encodeArray(v.a, opts, depth)
    [] v.t = "bool" -> IF v.b THEN <<"t", "r", "u", "e">> ELSE <<"f", "a", "l", "s", "e">>
    [] v.t = "num" -> FmtV(v)
    [] v.t = "str" -> encodeString(v.s, opts.Delimiter)

encodeObject(obj, opts, depth) ==
  IF DOMAIN obj = {} THEN <<>>
  ELSE
    LET keys == SortStrings(DOMAIN obj)
        indent == makeIndent(depth, opts)
        \* the lines that the field key adds
        field(key) ==
          LET value == obj[key]
          IN  CASE value.t = "null" -> <<indent \o key \o <<":", " ", "n", "u", "l", "l">>>>
                [] value.t = "obj" ->
                     <<indent \o key \o <<":">>, encodeObject(value.m, opts, depth + 1)>>
                [] value.t = "arr" ->
                     <<indent \o key \o encodeArray(value.a, opts, depth + 1)>>
                [] OTHER -> <<indent \o key \o <<":", " ">> \o encode(value, opts, depth)>>
        lines[i \in 0..Len(keys)] ==
          IF i = 0 THEN <<>> ELSE lines[i - 1] \o field(keys[i])
    IN  Join(lines[Len(keys)], <<"\n">>)

\* encodeArray; encodeArrayValue is an alias of it
encodeArray(arr, opts, depth) ==
  IF Len(arr) = 0 THEN <<"[", "0", "]", ":">>
  ELSE IF isUniformArray(arr) THEN encodeTabularArray(arr, opts, depth)
  ELSE IF isAllPrimitives(arr) THEN encodePrimitiveArray(arr, opts)
  ELSE encodeMixedArray(arr, opts, depth)

encodeMixedArray(arr, opts, depth) ==
  LET indent == makeIndent(depth, opts)
      lines == <<<<"[">> \o Itoa(Len(arr)) \o <<"]", ":">>>>
               \o [i \in 1..Len(arr) |-> indent \o <<"-", " ">> \o encode(arr[i], opts, depth)]
  IN  Join(lines, <<"\n">>)

Encode(v, opts) == encode(v, opts, 0)

(***************************************************************************)
(* pkg/toon/toon.go: the decoder.                                          *)
(***************************************************************************)
\* parseValue of package toon: a scalar of a document; it never fails
toonParseValue(s0) ==
  LET s == TrimSpace(s0)
  IN  IF s = <<"n", "u", "l", "l">> THEN Null
      ELSE IF s = <<"t", "r", "u", "e">> THEN Bool(TRUE)
      ELSE IF s = <<"f", "a", "l", "s", "e">> THEN Bool(FALSE)
      ELSE IF ParseFloat(s).ok THEN Num("int64", ParseFloat(s).n)
      ELSE IF HasPrefix(s, <<"\"">>) /\ HasSuffix(s, <<"\"">>) THEN Str(Trim(s, {"\""}))
      ELSE Str(s)

RECURSIVE countIndent(_)
countIndent(line) ==
  IF Len(line) = 0 THEN 0
  ELSE IF line[1] = " " THEN 1 + countIndent(Tail(line))
  ELSE IF line[1] = "\t" THEN 2 + countIndent(Tail(line))
  ELSE 0

\* strings.TrimLeft(s, " \t\n"), what csv.Reader.TrimLeadingSpace does
TrimLeftSpace(s) ==
  LET keep == {i \in 1..Len(s) : s[i] \notin SpaceChars}
  IN  IF keep = {} THEN <<>> ELSE SubSeq(s, SetMin(keep), Len(s))

RECURSIVE csvFields(_, _)
RECURSIVE csvQuoted(_, _, _)
\* encoding/csv Reader.readRecord on a one-line input, Comma ',',
\* TrimLeadingSpace, no LazyQuotes: the fields, or a parse error
csvFields(line0, fields) ==
  LET line == TrimLeftSpace(line0)
  IN  IF Len(line) = 0 \/ line[1] # "\""
      THEN LET i == Index(line, <<",">>)
               field == IF i >= 0 THEN Slice(line, 0, i) ELSE line
           IN  IF Contains(field, <<"\"">>) THEN Err("bare \" in non-quoted-field")
               ELSE IF i >= 0 THEN csvFields(SliceFrom(line, i + 1), Append(fields, field))
               ELSE Ok(Append(fields, field))
      ELSE csvQuoted(Tail(line), <<>>, fields)

\* the quoted field whose text so far is buf, line the input after it
csvQuoted(line, buf, fields) ==
  LET i == Index(line, <<"\"">>)
  IN  IF i = -1 THEN Err("extraneous or missing \" in quoted-field")
      ELSE LET rest == SliceFrom(line, i + 1)
               got == buf \o Slice(line, 0, i)
           IN  IF Len(rest) = 0 THEN Ok(Append(fields, got))
               ELSE IF rest[1] = "\"" THEN csvQuoted(Tail(rest), got \o <<"\"">>, fields)
               ELSE IF rest[1] = "," THEN csvFields(Tail(rest), Append(fields, got))
               ELSE Err("extraneous or missing \" in quoted-field")

csvRead(line) == csvFields(line, <<>>)

parsePrimitiveArray(value) ==
  LET values == Split(value, <<",">>)
  IN  Ok(Arr([i \in 1..Len(values) |-> toonParseValue(TrimSpace(values[i]))]))

RECURSIVE tabularRows(_, _, _, _, _, _)
\* parseTabularArray, the loop over the rows: row i (from 0) with the rows
\* read so far
tabularRows(length, fields, lines, startIdx, i, res) ==
  IF ~(i < length /\ startIdx + i < Len(lines)) THEN Ok(Arr(res))
  ELSE LET line == TrimSpace(lines[startIdx + i + 1])
           rec == csvRead(line)
       IN  IF line = <<>> THEN tabularRows(length, fields, lines, startIdx, i + 1, res)
           ELSE IF rec.k # "ok"
                THEN [k |-> "err", e |-> "failed to parse tabular row at line %d: %w",
                      line |-> startIdx + i]
           ELSE IF Len(rec.v) # Len(fields)
                THEN [k |-> "err",
                      e |-> "field count mismatch at line %d: expected %d fields, got %d",
                      line |-> startIdx + i]
           ELSE LET obj == [f \in {fields[j] : j \in 1..Len(fields)} |->
                              LET j == SetMax({x \in 1..Len(fields) : fields[x] = f})
                              IN  toonParseValue(TrimSpace(rec.v[j]))]
                IN  tabularRows(length, fields, lines, startIdx, i + 1, Append(res, Obj(obj)))

parseTabularArray(length, fields, lines, startIdx) ==
  tabularRows(length, fields, lines, startIdx, 0, <<>>)

RECURSIVE listItems(_, _, _, _, _)
\* parseListArray, the loop over the items
listItems(length, lines, startIdx, i, res) ==
  IF ~(i < length /\ startIdx + i < Len(lines)) THEN Ok(Arr(res))
  ELSE LET line == TrimSpace(lines[startIdx + i + 1])
       IN  IF ~HasPrefix(line, <<"-">>) THEN listItems(length, lines, startIdx, i + 1, res)
           ELSE listItems(length, lines, startIdx, i + 1,
                          Append(res, toonParseValue(TrimSpace(SliceFrom(line, 1)))))

parseListArray(length, lines, startIdx) == listItems(length, lines, startIdx, 0, <<>>)

parseArrayHeader(key, value, lines, nextIdx) ==
  LET start == Index(key, <<"[">>)
      end == Index(key, <<"]">>)
      lengthStr == Slice(key, start + 1, end)
      length == Atoi(lengthStr)
      fieldStart == Index(key, <<"{">>)
      fieldEnd == Index(key, <<"}">>)
      split == Split(Slice(key, fieldStart + 1, fieldEnd), <<",">>)
      fields == IF Contains(key, <<"{">>)
                THEN [i \in 1..Len(split) |-> TrimSpace(split[i])]
                ELSE <<>>
  IN  IF start = -1 \/ end = -1 THEN Err("invalid array syntax in '%s'")
      ELSE IF start + 1 > end THEN Panic
      ELSE IF lengthStr = <<>> THEN Err("empty array length in '%s'")
      ELSE IF ~length.ok THEN Err("invalid array length '%s': %w")
      ELSE IF length.n < 0 THEN Err("negative array length not allowed: %d")
      ELSE IF Contains(key, <<"{">>) /\ fieldEnd = -1 THEN Err("invalid array field syntax")
      ELSE IF Contains(key, <<"{">>) /\ fieldStart + 1 > fieldEnd THEN Panic
      ELSE IF Len(fields) > 0 THEN parseTabularArray(length.n, fields, lines, nextIdx)
      ELSE IF value # <<>> THEN parsePrimitiveArray(value)
      ELSE parseListArray(length.n, lines, nextIdx)

RECURSIVE nestedEnd(_, _, _)
\* parseTOON, the loop that finds the end of a nested object: the first
\* line from j on (from 0) that is not indented deeper than indent
nestedEnd(lines, j, indent) ==
  IF j < Len(lines) /\ countIndent(lines[j + 1]) > indent
  THEN nestedEnd(lines, j + 1, indent)
  ELSE j

RECURSIVE parseTOON(_, _)
RECURSIVE parseLines(_, _, _)
\* parseTOON, the loop over the lines: line i (from 0) with the map so far
parseLines(lines, i, res) ==
  IF i >= Len(lines) THEN Ok(Obj(res))
  ELSE
    LET line == lines[i + 1]
        indent == countIndent(line)
        parts == SplitN2(TrimSpace(line), <<":">>)
        key == TrimSpace(parts[1])
        value == TrimSpace(parts[2])
    IN  IF TrimSpace(line) = <<>> THEN parseLines(lines, i + 1, res)
        ELSE IF ~Contains(line, <<":">>) THEN parseLines(lines, i + 1, res)
        ELSE IF Contains(key, <<"[">>)
        THEN LET arr == parseArrayHeader(key, value, lines, i + 1)
                 idx == Index(key, <<"[">>)
                 actualKey == IF idx > 0 THEN Slice(key, 0, idx) ELSE key
             IN  IF arr.k # "ok" THEN arr
                 ELSE parseLines(lines, i + 1, Put(res, actualKey, arr.v))
        ELSE IF value # <<>>
        THEN parseLines(lines, i + 1, Put(res, key, toonParseValue(value)))
        ELSE
          LET j == nestedEnd(lines, i + 1, indent)
              nested == parseTOON(SubSeq(lines, i + 2, j), 0)
          IN  IF j > i + 1
              THEN IF nested.k = "err"
                   THEN [nested EXCEPT !.e = "failed to parse nested object at key '%s': %w"]
                   ELSE IF nested.k # "ok" THEN nested
                   ELSE IF nested.v.t # "obj" THEN Err("expected object for key '%s', got %T")
                   ELSE parseLines(lines, i + 1, Put(res, key, nested.v))
              ELSE parseLines(lines, i + 1, Put(res, key, EmptyObj))

parseTOON(lines, startIdx) ==
  IF startIdx >= Len(lines) THEN Ok(Null)
  ELSE parseLines(lines, startIdx, <<>>)

Decode(input) ==
  IF input = <<>> THEN Err("empty input")
  ELSE parseTOON(Split(input, <<"\n">>), 0)

(***************************************************************************)
(* The input documents and queries.                                        *)
(***************************************************************************)
\* the sequences of length 0..n over the set S
SeqsUpTo(S, n) == UNION {[1..k -> S] : k \in 0..n}

\* the documents {key: [r1, ..., rn]}, n <= MaxLen, with the ri in rows
Wrap(key, rows) == {Obj(Entry(key, Arr(a))) : a \in SeqsUpTo(rows, MaxLen)}

Atoms == {Null, Bool(TRUE), Bool(FALSE), F(0), F(1), Str(<<"a">>), Str(<<"b", "c">>)}

NameRows == {Obj(Entry(<<"n", "a", "m", "e">>, Str(s))) : s \in {<<>>, <<"a">>, <<"b", "c">>}}

AgeRows == {Obj(Entry(<<"a", "g", "e">>, F(n))) : n \in 0..2}

ActiveRows == {Obj(Put(Entry(<<"a", "c", "t", "i", "v", "e">>, Bool(b)), <<"i", "d">>, F(n))) : b \in BOOLEAN, n \in 1..2}

FRows == {EmptyObj} \cup {Obj(Entry(<<"f">>, v)) : v \in {Null, F(1), Str(<<"a">>)}}

\* arrays of scalars
Lists == {Arr(a) : a \in SeqsUpTo({Null, F(1), Str(<<"a">>)}, MaxLen)}

\* objects of two fields, and objects nested three deep
Pairs == {Obj(Put(Entry(<<"a">>, v), <<"b">>, w)) : v, w \in {Null, F(1), Str(<<"a">>)}}

\* the documents {a: {b: {c: v}}}
Deep == {Obj(Entry(<<"a">>, Obj(Entry(<<"b">>, Obj(Entry(<<"c">>, v)))))) : v \in Atoms}

Nested ==
  Deep
  \cup {Obj(Entry(<<"a">>, Obj(Entry(<<"b">>, v)))) : v \in Atoms}

Documents == Atoms \cup FRows \cup AgeRows \cup Lists \cup Pairs \cup Nested

\* the query .[i]
IndexQuery(i) == <<".", "[">> \o Itoa(i) \o <<"]">>

NameQueries ==
  {<<".", "i", "t", "e", "m", "s", "[", "]", " ", "|", " ", ".", "n", "a", "m", "e", " ", "|", " ", "l", "e", "n", "g", "t", "h", "(", ")">>, <<".", "i", "t", "e", "m", "s", "[", "]", " ", "|", " ", ".", "n", "a", "m", "e">>, <<".", "i", "t", "e", "m", "s", "[", "]", ".", "n", "a", "m", "e">>,
   <<"[", ".", "i", "t", "e", "m", "s", "[", "]", " ", "|", " ", ".", "n", "a", "m", "e", "]">>, <<"[", ".", "i", "t", "e", "m", "s", "]">>, <<".", "i", "t", "e", "m", "s", " ", "|", " ", "l", "e", "n", "g", "t", "h", "(", ")">>,
   <<".", "i", "t", "e", "m", "s", "[", "]", " ", "|", " ", "l", "e", "n", "g", "t", "h", "(", ")">>, <<".", "i", "t", "e", "m", "s", "[", "]">>}

AgeQueries ==
  {<<".", "[", "]", " ", "|", " ", "s", "e", "l", "e", "c", "t", "(", ".", "a", "g", "e", " ", ">", " ", "1", ")">>, <<"[", ".", "[", "]", " ", "|", " ", "s", "e", "l", "e", "c", "t", "(", ".", "a", "g", "e", " ", ">", " ", "1", ")", "]">>, <<".", "[", "]", " ", "|", " ", ".", "a", "g", "e">>,
   <<"s", "e", "l", "e", "c", "t", "(", ".", "a", "g", "e", " ", ">", " ", "1", ")">>, <<"[", "s", "e", "l", "e", "c", "t", "(", ".", "a", "g", "e", " ", ">", " ", "1", ")", "]">>, <<".", "[", "]">>}

ActiveQueries ==
  {<<"[", ".", "i", "t", "e", "m", "s", "[", "]", " ", "|", " ", "s", "e", "l", "e", "c", "t", "(", ".", "a", "c", "t", "i", "v", "e", ")", "]">>, <<"[", ".", "i", "t", "e", "m", "s", "[", "]", " ", "|", " ", "s", "e", "l", "e", "c", "t", "(", ".", "a", "c", "t", "i", "v", "e", " ", "=", "=", " ", "t", "r", "u", "e", ")", "]">>,
   <<".", "i", "t", "e", "m", "s", "[", "]", " ", "|", " ", "s", "e", "l", "e", "c", "t", "(", ".", "a", "c", "t", "i", "v", "e", " ", "=", "=", " ", "t", "r", "u", "e", ")", " ", "|", " ", ".", "i", "d">>}

FQueries == {<<".", "x", "s", "[", "]", " ", "|", " ", ".", "f">>, <<".", "x", "s", "[", "]", ".", "f">>, <<".", "x", "s", "[", "]">>}

DocQueries ==
  {<<".">>, <<" ", ".", " ">>, <<".", "\n">>, <<".", "f">>, <<".", "[", "]">>, <<".", "a", "[", "]">>, <<"[", ".", "]">>, <<"[", "]">>, <<"[", ".", "a", "]">>,
   <<"s", "e", "l", "e", "c", "t", "(", ".", "a", "g", "e", " ", ">", " ", "1", ")">>, <<"[", "s", "e", "l", "e", "c", "t", "(", ".", "a", "g", "e", " ", ">", " ", "1", ")", "]">>,
   <<".", "a", "|", ".", "b", "|", ".", "c">>, <<"(", ".", "a", "|", ".", "b", ")", "|", ".", "c">>, <<".", "a", "|", "(", ".", "b", "|", ".", "c", ")">>, <<".", "a", " ", "|", " ", ".", "b">>}

\* the alternatives of a chain, and the chains e1 // ... // en
AltParts == {<<"f", "a", "l", "s", "e">>, <<"n", "u", "l", "l">>, <<"3">>, <<".", "a">>, <<".", "a", ".", "b">>}

AltChains == UNION {[1..n -> AltParts] : n \in 2..MaxChain}

AltQuery(chain) == Join(chain, <<" ", "/", "/", " ">>)

AltDocuments ==
  {Obj(Entry(<<"a">>, v)) :
     v \in {Null, Bool(FALSE), F(1), Obj(Entry(<<"b">>, Null)), Obj(Entry(<<"b">>, Str(<<"a">>)))}}

IfQueries ==
  {<<"i", "f", " ", ".", "a", " ", "t", "h", "e", "n", " ", "1", " ", "e", "l", "s", "e", " ", "2", " ", "e", "n", "d">>, <<"i", "f", " ", ".", "a", " ", ">", " ", "0", " ", "t", "h", "e", "n", " ", "1", " ", "e", "l", "s", "e", " ", "2", " ", "e", "n", "d">>,
   <<"i", "f", " ", ".", "a", " ", "t", "h", "e", "n", " ", "i", "f", " ", ".", "b", " ", "t", "h", "e", "n", " ", "1", " ", "e", "l", "s", "e", " ", "2", " ", "e", "n", "d", " ", "e", "l", "s", "e", " ", "3", " ", "e", "n", "d">>,
   <<"i", "f", " ", ".", "a", " ", "t", "h", "e", "n", " ", "1", " ", "e", "l", "s", "e", " ", "i", "f", " ", ".", "b", " ", "t", "h", "e", "n", " ", "2", " ", "e", "l", "s", "e", " ", "3", " ", "e", "n", "d", " ", "e", "n", "d">>}

IfDocuments ==
  {Obj(Put(Entry(<<"a">>, v), <<"b">>, w)) : v, w \in {Null, Bool(FALSE), Bool(TRUE), F(0), F(1)}}

\* queries that are not well formed
MalformedQueries ==
  {<<"i", "f", " ", "e", "n", "d">>, <<".", "a", "]", "b", "[", "0">>, <<"[", ".", "a">>, <<".", "a", "[", "0">>, <<"f", "o", "o">>, <<"i", "f", " ", ".", "a", " ", "1", " ", "e", "l", "s", "e", " ", "2", " ", "e", "n", "d">>,
   <<"i", "f", " ", ".", "a", " ", "t", "h", "e", "n", " ", "1", " ", "e", "n", "d">>, <<"i", "f", " ", ".", "a", " ", "t", "h", "e", "n", " ", "1", " ", "e", "l", "s", "e", " ", "2">>}

MalformedDocuments == {Null, Obj(Entry(<<"a">>, F(1))), Obj(Entry(<<"a">>, Arr(<<F(1)>>)))}

\* calls of built-in functions, and the documents they are tried on
BuiltinQueries ==
  {<<"h", "a", "s", "(", "\"", "a", "\"", ")">>, <<"s", "t", "a", "r", "t", "s", "w", "i", "t", "h", "(", "\"", "a", "\"", ")">>, <<"e", "n", "d", "s", "w", "i", "t", "h", "(", "\"", "b", "\"", ")">>, <<"c", "o", "n", "t", "a", "i", "n", "s", "(", "\"", "a", "\"", ")">>,
   <<"i", "n", "(", ".", "a", ")">>, <<"i", "n", "(", "1", ")">>, <<"t", "o", "n", "u", "m", "b", "e", "r", "(", ")">>, <<"r", "e", "v", "e", "r", "s", "e", "(", ")">>, <<"k", "e", "y", "s", "(", ")">>}

BuiltinDocuments ==
  {Null, Bool(TRUE), Bool(FALSE), F(1), Str(<<"a", "b">>), Str(<<"1">>), Arr(<<Str(<<"a">>)>>),
   Obj(Entry(<<"a">>, F(1))), Obj(Entry(<<"a">>, Arr(<<F(1)>>))), Obj(Entry(<<"b">>, Str(<<"a">>)))}

IndexQueries == {IndexQuery(i) : i \in (0 - MaxIdx)..MaxIdx}

\* the arguments range is called with: one to four of 0, 3, -2 and 1.5, the
\* arguments of the tests, and arguments next to the largest int
RangeArgs ==
  (SeqsUpTo({<<"0">>, <<"3">>, <<"-", "2">>, <<"1", ".", "5">>}, 4) \ {<<>>})
  \cup {<<<<"5">>>>, <<<<"2">>, <<"5">>>>, <<<<"0">>, <<"1", "0">>, <<"2">>>>,
         <<<<"9", "2", "2", "3", "3", "7", "2", "0", "3", "6", "8", "5", "4", "7", "7", "5", "8", "0", "6">>, <<"9", "2", "2", "3", "3", "7", "2", "0", "3", "6", "8", "5", "4", "7", "7", "5", "8", "0", "7">>>>,
         <<<<"9", "2", "2", "3", "3", "7", "2", "0", "3", "6", "8", "5", "4", "7", "7", "5", "8", "0", "6">>, <<"9", "2", "2", "3", "3", "7", "2", "0", "3", "6", "8", "5", "4", "7", "7", "5", "8", "0", "7">>, <<"2">>>>}

RangeQuery(args) == <<"r", "a", "n", "g", "e", "(">> \o Join(args, <<";">>) \o <<")">>

\* arrays mixing null, numbers and strings, with strings that render as
\* numbers do
SortLists ==
  {Arr(a) : a \in SeqsUpTo({Null, F(2), F(10), Str(<<"1", "0">>), Str(<<"a">>)}, MaxLen)}
  \cup {Arr(<<F(3), F(1), F(2)>>), Str(<<"a">>), Null}

\* queries with a bar or a double slash inside parentheses, quotes or
\* braces, each with a document it applies to
NestedQueries ==
  LET doc == Obj(Put(Entry(<<"a">>, Obj(Entry(<<"b">>, F(1)))), <<"x">>, Null))
  IN  {<<<<"m", "a", "p", "(", ".", "a", " ", "|", " ", ".", "b", ")">>, Arr(<<doc>>)>>, <<<<"s", "p", "l", "i", "t", "(", "\"", "|", "\"", ")">>, Str(<<"a", "|", "b">>)>>,
       <<<<"(", ".", "a", "|", ".", "b", ")">>, doc>>, <<<<"{", "a", ":", " ", ".", "x", " ", "/", "/", " ", "1", "}">>, doc>>}

\* queries with a bar, a comma or a double slash inside a quoted string
QuotedQueries ==
  LET doc == Obj(Put(Entry(<<"a">>, Str(<<"x", "|", "y">>)), <<"u">>, Null))
  IN  {<<<<".", "a", " ", "=", "=", " ", "\"", "x", "|", "y", "\"">>, doc>>, <<<<"{", "a", ":", " ", "\"", "b", ",", "c", "\"", "}">>, doc>>,
       <<<<".", "u", " ", "/", "/", " ", "\"", "h", "t", "t", "p", ":", "/", "/", "h", "\"">>, doc>>}

QueryInputs ==
  (NameQueries \X Wrap(<<"i", "t", "e", "m", "s">>, NameRows))
  \cup (AgeQueries \X {Arr(a) : a \in SeqsUpTo(AgeRows, MaxLen)})
  \cup (ActiveQueries \X Wrap(<<"i", "t", "e", "m", "s">>, ActiveRows))
  \cup (FQueries \X Wrap(<<"x", "s">>, FRows))
  \cup (DocQueries \X Documents)
  \cup (IndexQueries \X Lists)
  \cup (IfQueries \X IfDocuments)
  \cup (BuiltinQueries \X BuiltinDocuments)
  \cup (MalformedQueries \X MalformedDocuments)
  \cup NestedQueries
  \cup QuotedQueries
  \cup ({<<"s", "o", "r", "t", "(", ")">>} \X SortLists)
  \cup ({RangeQuery(args) : args \in RangeArgs} \X {Null})
  \cup ({AltQuery(chain) : chain \in AltChains} \X AltDocuments)

\* the values that the conversion to TOON and back is tried on
ToonAtoms ==
  {Null, Bool(TRUE), F(1), Str(<<"a">>), Str(<<"a", ",", "b">>), Str(<<"a", "\"", "b">>), Str(<<"1">>)}

ToonRows ==
  {Obj(Put(Entry(<<"i", "d">>, F(n)), <<"n", "a", "m", "e">>, Str(s))) : n \in 1..2, s \in {<<"a">>, <<"a", ",", "b">>}}
  \cup {Obj(Entry(<<"i", "d">>, F(1)))}

ToonLists ==
  {Arr(a) : a \in SeqsUpTo({Null, F(1), Str(<<"a">>), Str(<<"a", ",", "b">>)}, MaxLen)}
  \cup {Arr(a) : a \in SeqsUpTo(ToonRows, MaxLen - 1)}
  \cup {Arr(<<v, w>>) : v \in ToonRows, w \in {F(1), Str(<<"a">>)}}

\* strings that read as another type when they are not quoted
ProtectedStrings == {<<"t", "r", "u", "e">>, <<"f", "a", "l", "s", "e">>, <<"n", "u", "l", "l">>, <<"1">>, <<"-", "a">>, <<"-", "1">>}

\* the positions a string can occupy in a document
Positions == {"field", "inline", "cell", "item"}

\* the document {k: ...} holding the string s at the position pos
Placed(pos, s) ==
  Obj(Entry(<<"k">>,
    CASE pos = "field" -> Str(s)
      [] pos = "inline" -> Arr(<<Str(s), F(1)>>)
      [] pos = "cell" -> Arr(<<Obj(Entry(<<"i", "d">>, Str(s)))>>)
      [] pos = "item" -> Arr(<<Str(s), Arr(<<F(1)>>)>>)))

\* strings that encodeString is tried on
QuoteStrings ==
  {<<>>, <<"n", "o", "r", "m", "a", "l">>, <<"h", "e", "l", "l", "o", " ", "w", "o", "r", "l", "d">>, <<" ", "a">>, <<"a", " ">>, <<"\t", "a">>, <<"a", "\t">>, <<"a", ",", "b">>, <<"a", ":", "b">>,
   <<"a", "\n", "b">>, <<"t", "r", "u", "e">>, <<"f", "a", "l", "s", "e">>, <<"n", "u", "l", "l">>, <<"-", "a">>, <<"-", " ", "i", "t", "e", "m">>, <<"4", "2">>, <<"a", "\"", "b">>, <<" ", "a", "\"", "b">>}

\* objects with the keys id and name, and the documents holding an array of
\* them under the key users, alone or beside a field b
UserRows ==
  {Obj(Put(Entry(<<"i", "d">>, F(n)), <<"n", "a", "m", "e">>, Str(s))) : n \in 1..2, s \in {<<"A", "l", "i", "c", "e">>, <<"B", "o", "b">>}}

UserDocuments ==
  {Obj(Put(extra, <<"u", "s", "e", "r", "s">>, Arr(a))) :
     extra \in {<<>>, Entry(<<"b">>, F(1))}, a \in SeqsUpTo(UserRows, MaxLen) \ {<<>>}}

ToonDocuments ==
  UserDocuments \cup
  {Str(s) : s \in QuoteStrings} \cup
  {Placed(pos, s) : pos \in Positions, s \in ProtectedStrings} \cup
  ToonAtoms \cup ToonLists \cup {EmptyObj}
  \cup {Obj(Entry(<<"k">>, v)) : v \in ToonAtoms \cup ToonLists \cup {EmptyObj}}
  \cup {Obj(Put(Entry(<<"k">>, v), <<"j">>, w)) : v, w \in ToonAtoms}
  \cup {Obj(Entry(<<"k">>, Obj(Entry(<<"j">>, v)))) : v \in ToonAtoms}

\* the text of a document with the given lines
Text(lines) == Join(lines, <<"\n">>)

\* documents whose array header has its brackets or braces out of order
DisorderedTexts ==
  {Text(<<<<"]", "a", "[", ":", " ", "1">>>>), Text(<<<<"a", "]", "1", "[", ":", " ", "1", ",", "2">>>>), Text(<<<<"a", "[", "1", "]", "}", "{", ":", " ", "1">>>>),
   Text(<<<<"k", ":", " ", "1">>, <<"a", "[", "1", "]", "}", "i", "d", "{", ":">>, <<" ", " ", "1">>>>)}

\* rows of a tabular array with the header {id,name}: two fields, one, three
RowTexts == {<<"1", ",", "a">>, <<"2">>, <<"3", ",", "b", ",", "c">>}

RowSeqs == UNION {[1..n -> RowTexts] : n \in 1..MaxRows}

\* the lines that may come before the array
Preambles == {<<>>, <<<<"x", ":", " ", "1">>>>}

\* the lines of a document holding the tabular array users with the given
\* rows, at the root or inside the object k, after the lines before
TabularLines(before, nested, rows) ==
  LET pad == IF nested THEN <<" ", " ">> ELSE <<>>
  IN  before \o (IF nested THEN <<<<"k", ":">>>> ELSE <<>>)
        \o <<pad \o <<"u", "s", "e", "r", "s", "[">> \o Itoa(Len(rows)) \o <<"]", "{", "i", "d", ",", "n", "a", "m", "e", "}", ":">>>>
        \o [i \in 1..Len(rows) |-> pad \o <<" ", " ">> \o rows[i]]

TabularTexts ==
  {Text(TabularLines(before, nested, rows)) :
     before \in Preambles, nested \in BOOLEAN, rows \in RowSeqs}

\* documents whose root is an array: inline, tabular, list
RootArrayTexts ==
  {Text(<<<<"[", "2", "]", ":", " ", "1", ",", "a">>>>), Text(<<<<"[", "1", "]", "{", "i", "d", ",", "n", "a", "m", "e", "}", ":">>, <<" ", " ", "1", ",", "a">>>>),
   Text(<<<<"[", "2", "]", ":">>, <<" ", " ", "-", " ", "1">>, <<" ", " ", "-", " ", "a">>>>)}

\* the delimiters the encoder is run with: the default one, a bar, a tab
Delimiters == {<<",">>, <<"|">>, <<"\t">>}

\* documents holding an array of scalars under the key tags
TagDocuments ==
  {Obj(Entry(<<"t", "a", "g", "s">>, Arr(a))) :
     a \in {<<Str(<<"a", "d", "m", "i", "n">>), Str(<<"o", "p", "s">>), Str(<<"d", "e", "v">>)>>, <<F(1), Bool(TRUE), Str(<<"x">>)>>,
            <<Str(<<"a">>), F(2)>>}}

\* documents whose array a declares two elements, in the three forms, with
\* two elements, fewer, more, a blank line or a line that is not an item
CountTexts ==
  {Text(<<<<"a", "[", "2", "]", ":", " ", "1", ",", "2">>>>), Text(<<<<"a", "[", "2", "]", ":", " ", "1">>>>), Text(<<<<"a", "[", "2", "]", ":", " ", "1", ",", "2", ",", "3">>>>),
   Text(<<<<"a", "[", "2", "]", "{", "i", "d", "}", ":">>, <<" ", " ", "1">>, <<" ", " ", "2">>>>), Text(<<<<"a", "[", "2", "]", "{", "i", "d", "}", ":">>, <<" ", " ", "1">>>>),
   Text(<<<<"a", "[", "2", "]", "{", "i", "d", "}", ":">>, <<" ", " ", "1">>, <<>>, <<" ", " ", "2">>>>),
   Text(<<<<"a", "[", "2", "]", "{", "i", "d", "}", ":">>, <<" ", " ", "1">>, <<" ", " ", "2">>, <<" ", " ", "3">>>>),
   Text(<<<<"a", "[", "2", "]", ":">>, <<" ", " ", "-", " ", "1">>, <<" ", " ", "-", " ", "2">>>>), Text(<<<<"a", "[", "2", "]", ":">>, <<" ", " ", "-", " ", "1">>>>),
   Text(<<<<"a", "[", "2", "]", ":">>, <<" ", " ", "-", " ", "1">>, <<>>, <<" ", " ", "-", " ", "2">>>>),
   Text(<<<<"a", "[", "2", "]", ":">>, <<" ", " ", "-", " ", "1">>, <<" ", " ", "x">>, <<" ", " ", "-", " ", "2">>>>),
   Text(<<<<"a", "[", "2", "]", ":">>, <<" ", " ", "-", " ", "1">>, <<" ", " ", "-", " ", "2">>, <<" ", " ", "-", " ", "3">>>>)}

\* documents with nested objects, one and two levels deep, with fields of
\* the root before and after them, and a tabular array with a colon in a row
NestedTexts ==
  {Text(<<<<"u", "s", "e", "r", ":">>, <<" ", " ", "n", "a", "m", "e", ":", " ", "A", "l", "i", "c", "e">>, <<" ", " ", "a", "g", "e", ":", " ", "3", "0">>>>),
   Text(<<<<"x", ":", " ", "1">>, <<"u", "s", "e", "r", ":">>, <<" ", " ", "n", "a", "m", "e", ":", " ", "A", "l", "i", "c", "e">>, <<"y", ":", " ", "2">>>>),
   Text(<<<<"a", ":">>, <<" ", " ", "b", ":">>, <<" ", " ", " ", " ", "c", ":", " ", "1">>, <<" ", " ", "d", ":", " ", "2">>, <<"e", ":", " ", "3">>>>),
   Text(<<<<"a", ":">>, <<" ", " ", "b", ":">>, <<" ", " ", " ", " ", "c", ":", " ", "1">>, <<"e", ":", " ", "3">>>>),
   Text(<<<<"u", "s", "e", "r", "s", "[", "1", "]", "{", "i", "d", ",", "n", "a", "m", "e", "}", ":">>, <<" ", " ", "1", ",", "\"", "a", ":", "b", "\"">>>>)}

\* the documents that are read as they are
ToonTexts ==
  DisorderedTexts \cup TabularTexts \cup RootArrayTexts \cup CountTexts
  \cup NestedTexts
  \cup {Encode(doc, [DefaultOptions EXCEPT !.Delimiter = d]) :
          doc \in TagDocuments, d \in Delimiters}

NoOutcome == [k |-> "none"]

Init ==
  /\ \/ /\ pc = "query"
        /\ \E input \in QueryInputs : query = input[1] /\ data = input[2]
        /\ text = NoOutcome
     \/ /\ pc = "convert"
        /\ query = <<".">>
        /\ data \in ToonDocuments
        /\ text = NoOutcome
     \/ /\ pc = "text"
        /\ query = <<".">>
        /\ data = Null
        /\ text \in {Str(t) : t \in ToonTexts}
  /\ result = NoOutcome
  /\ decoded = NoOutcome

\* cli: engine.Execute(queryStr, data)
Run ==
  /\ pc = "query"
  /\ result' = Execute(query, data)
  /\ data' = inputAfter(query, data)
  /\ pc' = "ran"
  /\ UNCHANGED <<query, text, decoded>>

\* the document is written as TOON: toon.Encode(data, toon.DefaultOptions())
EncodeStep ==
  /\ pc = "convert"
  /\ text' = Str(Encode(data, DefaultOptions))
  /\ pc' = "encoded"
  /\ UNCHANGED <<query, data, result, decoded>>

\* the text is read back: toon.Decode(text)
DecodeStep ==
  /\ pc = "encoded"
  /\ decoded' = Decode(text.s)
  /\ pc' = "decoded"
  /\ UNCHANGED <<query, data, result, text>>

\* a document given as text is read: toon.Decode(text)
ParseStep ==
  /\ pc = "text"
  /\ decoded' = Decode(text.s)
  /\ pc' = "parsed"
  /\ UNCHANGED <<query, data, result, text>>

Next == Run \/ EncodeStep \/ DecodeStep \/ ParseStep

Spec == Init /\ [][Next]_vars

(***************************************************************************)
(* The claims.                                                             *)
(***************************************************************************)
RECURSIVE Plain(_)
\* v with every number held as a float64: the value regardless of Go's
\* numeric types
Plain(v) ==
  CASE v.t = "num" -> F(v.n)
    [] v.t = "arr" -> Arr([i \in 1..Len(v.a) |-> Plain(v.a[i])])
    [] v.t = "obj" -> Obj([key \in DOMAIN v.m |-> Plain(v.m[key])])
    [] OTHER -> v

\* the field key of the object v, null when v lacks it
FieldOrNull(v, key) == IF key \in DOMAIN v.m THEN v.m[key] ELSE Null

\* C1: round trip: for every value v, Decode(Encode(v, DefaultOptions()))
\* succeeds and gives v back (numbers compared by value).
C1_RoundTrip ==
  pc = "decoded" => decoded.k = "ok" /\ Plain(decoded.v) = Plain(data)

\* C2: pipe is flat-map: in .items[] | .name | length(), with several
\* items, the stage length() is applied to each name separately, giving one
\* length per item, in order.
C2_PipeFlatMap ==
  pc = "ran" /\ query = <<".", "i", "t", "e", "m", "s", "[", "]", " ", "|", " ", ".", "n", "a", "m", "e", " ", "|", " ", "l", "e", "n", "g", "t", "h", "(", ")">>
    /\ Len(data.m[<<"i", "t", "e", "m", "s">>].a) >= 2 =>
    LET items == data.m[<<"i", "t", "e", "m", "s">>].a
    IN  result = Ok(Arr([i \in 1..Len(items) |-> Num("int", Len(items[i].m[<<"n", "a", "m", "e">>].s))]))

\* C3: select is a filter: where its condition is false it produces no
\* output, never a null: after an iteration, inside an array construction
\* and as the whole query.
C3_SelectFilters ==
  LET Old(v) == v.m[<<"a", "g", "e">>].n > 1
  IN  /\ pc = "ran" /\ query = <<".", "[", "]", " ", "|", " ", "s", "e", "l", "e", "c", "t", "(", ".", "a", "g", "e", " ", ">", " ", "1", ")">> =>
           result = Ok(Arr(SelectSeq(data.a, Old)))
      /\ pc = "ran" /\ query = <<"[", "s", "e", "l", "e", "c", "t", "(", ".", "a", "g", "e", " ", ">", " ", "1", ")", "]">> /\ data \in AgeRows /\ ~Old(data) =>
           result = Ok(Arr(<<>>))
      /\ pc = "ran" /\ query = <<"s", "e", "l", "e", "c", "t", "(", ".", "a", "g", "e", " ", ">", " ", "1", ")">> /\ data \in AgeRows /\ ~Old(data) =>
           result # Ok(Null)

\* C4: identity: Execute(".", v) returns v unchanged and no error, for every
\* value v, also when the query has surrounding whitespace.
C4_Identity == pc = "ran" /\ TrimSpace(query) = <<".">> => result = Ok(data)

C4_Witness ==
  /\ pc = "ran"
  /\ query = <<" ", ".", " ">>
  /\ data = Obj(Entry(<<"a">>, Obj(Entry(<<"b">>, F(1)))))
  /\ result = Ok(data)

\* C5: pipe associativity: on a document {a: {b: {c: v}}} the queries
\* .a|.b|.c, (.a|.b)|.c and .a|(.b|.c) all evaluate successfully and give
\* the same result.
C5_PipeAssociative ==
  pc = "ran" /\ query \in {<<".", "a", "|", ".", "b", "|", ".", "c">>, <<"(", ".", "a", "|", ".", "b", ")", "|", ".", "c">>, <<".", "a", "|", "(", ".", "b", "|", ".", "c", ")">>}
    /\ data \in Deep =>
    /\ result.k = "ok"
    /\ result = Execute(<<".", "a", "|", ".", "b", "|", ".", "c">>, data)

\* C6: array construction [inner] yields one array holding the outputs of
\* inner: [.] and [.items] hold their single output as the only element,
\* also when that output is an array, and [] is the empty array.
C6_ArrayConstruct ==
  /\ pc = "ran" /\ query = <<"[", ".", "]">> => result = Ok(Arr(<<data>>))
  /\ pc = "ran" /\ query = <<"[", ".", "i", "t", "e", "m", "s", "]">> => result = Ok(Arr(<<data.m[<<"i", "t", "e", "m", "s">>]>>))
  /\ pc = "ran" /\ query = <<"[", "]">> => result = Ok(Arr(<<>>))

\* C7: a select whose condition has no comparison is decided by truthiness:
\* [.items[] | select(.active)] returns the array of the items whose active
\* is true, and no error.
C7_SelectTruthy ==
  LET Active(v) == v.m[<<"a", "c", "t", "i", "v", "e">>].b
  IN  pc = "ran" /\ query = <<"[", ".", "i", "t", "e", "m", "s", "[", "]", " ", "|", " ", "s", "e", "l", "e", "c", "t", "(", ".", "a", "c", "t", "i", "v", "e", ")", "]">> =>
        result = Ok(Arr(SelectSeq(data.m[<<"i", "t", "e", "m", "s">>].a, Active)))

\* C8: field access yields one output per input: the stored value, null
\* where the object lacks the name, an error on a non-object; so
\* .xs[] | .f yields one result per element of xs, in order, and equals
\* the result of .xs[].f.
C8_FieldAccess ==
  /\ pc = "ran" /\ query = <<".", "f">> =>
       IF data.t = "obj" THEN result = Ok(FieldOrNull(data, <<"f">>))
       ELSE result.k = "err"
  /\ pc = "ran" /\ query = <<".", "x", "s", "[", "]", " ", "|", " ", ".", "f">> =>
       LET xs == data.m[<<"x", "s">>].a
       IN  /\ result = Ok(Arr([i \in 1..Len(xs) |-> FieldOrNull(xs[i], <<"f">>)]))
           /\ result = Execute(<<".", "x", "s", "[", "]", ".", "f">>, data)

\* C9: iteration .[] and .field[] yields the elements of an array in
\* order, the values of an object in sorted-key order, and fails on any
\* other value.
C9_Iterate ==
  LET Each(v, res) ==
        CASE v.t = "arr" -> res = Ok(v)
          [] v.t = "obj" ->
               res = Ok(Arr([i \in 1..Cardinality(DOMAIN v.m) |->
                               v.m[SortStrings(DOMAIN v.m)[i]]]))
          [] OTHER -> res.k = "err"
  IN  /\ pc = "ran" /\ query = <<".", "[", "]">> => Each(data, result)
      /\ pc = "ran" /\ query = <<".", "a", "[", "]">> /\ data.t = "obj" /\ <<"a">> \in DOMAIN data.m =>
           Each(data.m[<<"a">>], result)

\* C10: index access on an array of length n: .[i] returns the element at
\* position i for 0 <= i < n and at position n+i for -n <= i < 0, and fails
\* with an out-of-range error for every other i.
C10_IndexAccess ==
  \A i \in (0 - MaxIdx)..MaxIdx :
    pc = "ran" /\ query = IndexQuery(i) /\ data.t = "arr" =>
      LET n == Len(data.a)
      IN  IF 0 - n <= i /\ i < n
          THEN result = Ok(data.a[(IF i >= 0 THEN i ELSE n + i) + 1])
          ELSE result = Err("array index out of bounds: %d (array length: %d)")

C10_Witness ==
  /\ pc = "ran"
  /\ query = <<".", "[", "-", "1", "]">>
  /\ data = Arr(<<Str(<<"a">>), Null, F(1)>>)
  /\ result = Ok(F(1))

\* the outcome that the chain of alternatives must have: of the outcomes of
\* its expressions, the first that is an error or a truthy value, and the
\* last one when there is none
AltExpected(chain, d) ==
  LET Decides(i) == LET r == Execute(chain[i], d)
                    IN  r.k # "ok" \/ (r.v # Null /\ r.v # Bool(FALSE))
      deciding == {i \in 1..Len(chain) : Decides(i)}
  IN  IF deciding = {} THEN Execute(chain[Len(chain)], d)
      ELSE Execute(chain[SetMin(deciding)], d)

\* C11: the alternative chain e1 // e2 // ... // en evaluates left to right
\* and returns the first truthy value (neither null nor false), the value of
\* en when all are falsy, and at once the error of the first ei that fails.
C11_AlternativeChain ==
  \A chain \in AltChains :
    pc = "ran" /\ query = AltQuery(chain) /\ data \in AltDocuments =>
      result = AltExpected(chain, data)

C11_Witness ==
  /\ pc = "ran"
  /\ query = <<"f", "a", "l", "s", "e", " ", "/", "/", " ", "n", "u", "l", "l", " ", "/", "/", " ", "3">>
  /\ result = Ok(F(3))

\* C12: if C then T else E end evaluates exactly one branch, T when C is
\* true (a comparison that holds, or a value other than null and false) and
\* E otherwise, and returns its result, also when T or E is itself an
\* if-then-else-end expression.
C12_IfElse ==
  pc = "ran" /\ data \in IfDocuments =>
    LET a == data.m[<<"a">>] \notin {Null, Bool(FALSE)}
        b == data.m[<<"b">>] \notin {Null, Bool(FALSE)}
    IN  /\ query = <<"i", "f", " ", ".", "a", " ", "t", "h", "e", "n", " ", "1", " ", "e", "l", "s", "e", " ", "2", " ", "e", "n", "d">> =>
             result = Ok(F(IF a THEN 1 ELSE 2))
        /\ query = <<"i", "f", " ", ".", "a", " ", ">", " ", "0", " ", "t", "h", "e", "n", " ", "1", " ", "e", "l", "s", "e", " ", "2", " ", "e", "n", "d">> /\ data.m[<<"a">>].t = "num" =>
             result = Ok(F(IF data.m[<<"a">>].n > 0 THEN 1 ELSE 2))
        /\ query = <<"i", "f", " ", ".", "a", " ", "t", "h", "e", "n", " ", "i", "f", " ", ".", "b", " ", "t", "h", "e", "n", " ", "1", " ", "e", "l", "s", "e", " ", "2", " ", "e", "n", "d", " ", "e", "l", "s", "e", " ", "3", " ", "e", "n", "d">> =>
             result = Ok(F(IF a THEN (IF b THEN 1 ELSE 2) ELSE 3))
        /\ query = <<"i", "f", " ", ".", "a", " ", "t", "h", "e", "n", " ", "1", " ", "e", "l", "s", "e", " ", "i", "f", " ", ".", "b", " ", "t", "h", "e", "n", " ", "2", " ", "e", "l", "s", "e", " ", "3", " ", "e", "n", "d", " ", "e", "n", "d">> =>
             result = Ok(F(IF a THEN 1 ELSE IF b THEN 2 ELSE 3))

\* C13: neither Engine.Execute nor toon.Decode ever ends the process in a
\* runtime panic: for every query and every document text the call returns
\* a value or an error.
C13_NoPanic ==
  /\ pc = "ran" => result # Panic
  /\ pc \in {"decoded", "parsed"} => decoded # Panic

\* C14: a malformed query always fails with an error and never yields a
\* value: unbalanced brackets, an if missing then, else or end, and a query
\* that starts with an unknown token.
C14_MalformedQueryFails ==
  pc = "ran" /\ query \in MalformedQueries => result.k # "ok"

\* C15: every built-in function checks the type of its input and fails with
\* an error when the type is wrong: has(key) on a non-object, startswith,
\* endswith and contains on a non-string, in(expr) with a container that is
\* neither array nor object, tonumber on a boolean, reverse on a non-array,
\* keys on a value that is neither object nor array.
C15_BuiltinTypeChecks ==
  pc = "ran" /\ data \in BuiltinDocuments =>
    /\ query = <<"h", "a", "s", "(", "\"", "a", "\"", ")">> /\ data.t # "obj" => result.k = "err"
    /\ query \in {<<"s", "t", "a", "r", "t", "s", "w", "i", "t", "h", "(", "\"", "a", "\"", ")">>, <<"e", "n", "d", "s", "w", "i", "t", "h", "(", "\"", "b", "\"", ")">>, <<"c", "o", "n", "t", "a", "i", "n", "s", "(", "\"", "a", "\"", ")">>}
         /\ data.t # "str" => result.k = "err"
    /\ query = <<"i", "n", "(", "1", ")">> => result.k = "err"
    /\ query = <<"i", "n", "(", ".", "a", ")">> /\ data = Obj(Entry(<<"a">>, F(1))) => result.k = "err"
    /\ query = <<"t", "o", "n", "u", "m", "b", "e", "r", "(", ")">> /\ data.t = "bool" => result.k = "err"
    /\ query = <<"r", "e", "v", "e", "r", "s", "e", "(", ")">> /\ data.t # "arr" => result.k = "err"
    /\ query = <<"k", "e", "y", "s", "(", ")">> /\ data.t \notin {"obj", "arr"} => result.k = "err"

\* the positions of the rows that do not have exactly two fields
BadRows(rows) == {i \in 1..Len(rows) : rows[i] # <<"1", ",", "a">>}

\* C16: when a tabular row has a number of fields different from the
\* header's, Decode fails and the error names the 1-based line number of
\* the offending row within the whole document, also when the array sits
\* inside a nested object.
C16_RowMismatchLine ==
  \A before \in Preambles, nested \in BOOLEAN, rows \in RowSeqs :
    pc = "parsed" /\ text = Str(Text(TabularLines(before, nested, rows)))
      /\ BadRows(rows) # {} =>
        /\ decoded.k = "err"
        /\ "line" \in DOMAIN decoded
        /\ decoded.line = Len(before) + (IF nested THEN 1 ELSE 0) + 1 + SetMin(BadRows(rows))

\* C17: when the document root is an array form with no leading key
\* ([N]: v1,v2, or [N]{f1,...}: plus rows, or [N]: plus list items), Decode
\* returns that array as the document root, not an object with a key [N].
C17_RootArray ==
  pc = "parsed" /\ text.s \in RootArrayTexts =>
    /\ decoded.k = "ok"
    /\ text.s \in {Text(<<<<"[", "2", "]", ":", " ", "1", ",", "a">>>>), Text(<<<<"[", "2", "]", ":">>, <<" ", " ", "-", " ", "1">>, <<" ", " ", "-", " ", "a">>>>)} =>
         Plain(decoded.v) = Arr(<<F(1), Str(<<"a">>)>>)
    /\ text.s = Text(<<<<"[", "1", "]", "{", "i", "d", ",", "n", "a", "m", "e", "}", ":">>, <<" ", " ", "1", ",", "a">>>>) =>
         Plain(decoded.v) = Arr(<<Obj(Put(Entry(<<"i", "d">>, F(1)), <<"n", "a", "m", "e">>, Str(<<"a">>)))>>)

\* the value at the position pos of the document v, if v has that position
Found(pos, v) ==
  LET Get(w, key) == IF "t" \in DOMAIN w /\ w.t = "obj" /\ key \in DOMAIN w.m
                     THEN w.m[key] ELSE NoOutcome
      First(w) == IF "t" \in DOMAIN w /\ w.t = "arr" /\ Len(w.a) > 0
                  THEN w.a[1] ELSE NoOutcome
  IN  CASE pos = "field" -> Get(v, <<"k">>)
        [] pos = "cell" -> Get(First(Get(v, <<"k">>)), <<"i", "d">>)
        [] OTHER -> First(Get(v, <<"k">>))

\* C18: the quoting protects the type of strings: a string equal to true,
\* false or null, or that parses as a number, or that starts with -, comes
\* back from Decode(Encode(...)) as the same string in every position: an
\* object field, an element of an inline array, a cell of a tabular row, an
\* item of a mixed list.
C18_QuotingProtectsStrings ==
  \A pos \in Positions, s \in ProtectedStrings :
    pc = "decoded" /\ data = Placed(pos, s) =>
      decoded.k = "ok" /\ Found(pos, decoded.v) = Str(s)

\* the strings that must be written in quotes
MustQuote(s) ==
  \/ s = <<>>
  \/ s # <<>> /\ (s[1] \in {" ", "\t"} \/ s[Len(s)] \in {" ", "\t"} \/ s[1] = "-")
  \/ \E i \in 1..Len(s) : s[i] \in {",", ":", "\n"}
  \/ s \in {<<"t", "r", "u", "e">>, <<"f", "a", "l", "s", "e">>, <<"n", "u", "l", "l">>}
  \/ ParseFloat(s).ok

\* C19: encodeString writes a string in double quotes, with the inner
\* quotes escaped, when it is empty, has leading or trailing white space
\* (space or tab), contains the delimiter, a colon or a newline, equals
\* true, false or null, starts with -, or parses as a number; any other
\* string is written as it is.
C19_EncodeStringRule ==
  pc = "encoded" /\ data.t = "str" =>
    text.s = IF MustQuote(data.s)
             THEN <<"\"">> \o ReplaceAll(data.s, <<"\"">>, <<"\\", "\"">>) \o <<"\"">>
             ELSE data.s

C21_InlineArrayDelimiter ==
  \A doc \in TagDocuments, d \in Delimiters :
    pc = "parsed" /\ text.s = Encode(doc, [DefaultOptions EXCEPT !.Delimiter = d]) =>
      decoded.k = "ok" /\ Plain(decoded.v) = Plain(doc)

\* C22: the declared length is enforced: when Decode succeeds on a document
\* whose array a has the header a[2], in the inline, tabular or list form,
\* the decoded array a has exactly two elements; fewer or more elements, a
\* blank line or a line that is not an item never give another length.
C22_DeclaredLength ==
  pc = "parsed" /\ text.s \in CountTexts /\ decoded.k = "ok" =>
    /\ <<"a">> \in DOMAIN decoded.v.m
    /\ decoded.v.m[<<"a">>].t = "arr"
    /\ Len(decoded.v.m[<<"a">>].a) = 2

\* C23: range(n) returns [0,..,n-1]; range(a;b) returns [a,..,b-1];
\* range(a;b;s) returns a, a+s, a+2s, ... for all the terms below b when
\* s > 0 and above b when s < 0; s = 0 fails with an error, and so do more
\* than three arguments and an argument that is not an integer.  The list
\* is finite for every accepted argument: range(2;5) is [2,3,4] and
\* range(0;10;2) is [0,2,4,6,8].
C23_Range ==
  \A args \in RangeArgs :
    pc = "ran" /\ query = RangeQuery(args) =>
      LET Small == (<<"0">> :> 0) @@ (<<"3">> :> 3) @@ (<<"-", "2">> :> -2) @@ (<<"2">> :> 2)
                   @@ (<<"5">> :> 5) @@ (<<"1", "0">> :> 10)
          Large == {<<"9", "2", "2", "3", "3", "7", "2", "0", "3", "6", "8", "5", "4", "7", "7", "5", "8", "0", "6">>, <<"9", "2", "2", "3", "3", "7", "2", "0", "3", "6", "8", "5", "4", "7", "7", "5", "8", "0", "7">>}
          a == IF Len(args) = 1 THEN 0 ELSE Small[args[1]]
          b == IF Len(args) = 1 THEN Small[args[1]] ELSE Small[args[2]]
          s == IF Len(args) = 3 THEN Small[args[3]] ELSE 1
          n == IF s > 0 THEN (IF a >= b THEN 0 ELSE (b - a - 1) \div s + 1)
               ELSE (IF a <= b THEN 0 ELSE (a - b - 1) \div (0 - s) + 1)
      IN  IF Len(args) > 3 \/ \E j \in 1..Len(args) : args[j] \notin DOMAIN Small \cup Large
          THEN result.k = "err"
          ELSE IF \A j \in 1..Len(args) : args[j] \in DOMAIN Small
          THEN IF s = 0 THEN result.k = "err"
               ELSE /\ result.k = "ok"
                    /\ Plain(result.v) = Arr([i \in 1..n |-> F(a + (i - 1) * s)])
          \* from the largest int less one to the largest int: one element
          ELSE result.k = "ok" /\ Len(result.v.a) = 1

C26_ExecuteReturns ==
  pc = "ran" => result.k \in {"ok", "err"}

\* C27: Decode consumes every line by exactly one construct: the key set of
\* a decoded object is exactly the set of the keys written at its own
\* indentation level.  At the root these are the keys of the lines that are
\* not indented: a row of a tabular array that contains a colon adds no
\* key, and the children of user: do not appear in the root as well.
C27_KeysOfOwnLevel ==
  pc = "parsed" /\ text.s \in NestedTexts =>
    LET lines == Split(text.s, <<"\n">>)
        name(line) == Slice(line, 0, SetMin({Index(line, <<":">>), Index(line \o <<"[">>, <<"[">>)}))
        own == {name(lines[i]) : i \in {h \in 1..Len(lines) : lines[h][1] # " "}}
    IN  decoded.k = "ok" /\ DOMAIN decoded.v.m = own

\* C28: splitPipe, splitByComma and splitByString split only at the top
\* level: never inside parentheses, brackets or braces, and never inside a
\* double-quoted string.  Every part they return has its parentheses,
\* brackets and braces paired and an even number of quotes, as for
\* .a == "x|y", {a: "b,c"} and .u // "http://h".
C28_SplitTopLevel ==
  pc = "ran" /\ <<query, data>> \in NestedQueries \cup QuotedQueries =>
    LET Count(s, chars) == Cardinality({i \in 1..Len(s) : s[i] \in chars})
        Whole(parts) ==
          \A i \in 1..Len(parts) :
            /\ Count(parts[i], {"\""}) % 2 = 0
            /\ Count(parts[i], {"(", "[", "{"}) = Count(parts[i], {")", "]", "}"})
        inner == IF HasPrefix(query, <<"{">>) /\ HasSuffix(query, <<"}">>)
                 THEN Slice(query, 1, Len(query) - 1) ELSE query
    IN  /\ Whole(splitPipe(query))
        /\ Whole(splitByComma(inner))
        /\ Whole(splitByString(query, <<"/", "/">>))

\* C29: the encoder picks the form of an array by one rule: the tabular
\* form exactly when the array is not empty and all its elements are
\* objects with the same key set; otherwise the inline form exactly when no
\* element is an array or an object; otherwise the list form.  An empty
\* array is written as key[0]: with no body.
C29_ArrayForm ==
  pc = "encoded" /\ data.t = "obj" /\ DOMAIN data.m = {<<"k">>} /\ data.m[<<"k">>].t = "arr" =>
    LET a == data.m[<<"k">>].a
        lines == Split(text.s, <<"\n">>)
        head == <<"k", "[">> \o Itoa(Len(a)) \o <<"]">>
        form == IF text.s = <<"k", "[", "0", "]", ":">> THEN "empty"
                ELSE IF HasPrefix(lines[1], head \o <<"{">>) /\ HasSuffix(lines[1], <<"}", ":">>)
                        /\ Len(lines) = 1 + Len(a)
                     THEN "tabular"
                ELSE IF HasPrefix(lines[1], head \o <<":", " ">>) /\ Len(lines) = 1 THEN "inline"
                ELSE IF lines[1] = head \o <<":">> /\ Len(lines) > 1
                        /\ HasPrefix(lines[2], <<" ", " ", "-", " ">>)
                     THEN "list"
                ELSE "none"
        objects == \A i \in 1..Len(a) : a[i].t = "obj" /\ DOMAIN a[i].m = DOMAIN a[1].m
        scalars == \A i \in 1..Len(a) : a[i].t \notin {"arr", "obj"}
    IN  form = IF a = <<>> THEN "empty"
               ELSE IF objects THEN "tabular"
               ELSE IF scalars THEN "inline"
               ELSE "list"

\* an array holding an object and a number is written as a list
C29_Witness ==
  /\ pc = "encoded"
  /\ data = Obj(Entry(<<"k">>, Arr(<<Obj(Entry(<<"i", "d">>, F(1))), F(1)>>)))
  /\ text.s = <<"k", "[", "2", "]", ":", "\n", " ", " ", "-", " ", " ", " ", "i", "d", ":", " ", "1", "\n", " ", " ", "-", " ", "1">>

\* C30: a line key: with an empty value, followed by lines indented more
\* than it, decodes to the object built from exactly those lines, up to the
\* first line indented no more than key: itself; the lines after them are
\* fields of the enclosing object.  This holds at every nesting depth.
C30_NestedBlock ==
  LET Alice == Obj(Entry(<<"n", "a", "m", "e">>, Str(<<"A", "l", "i", "c", "e">>)))
      inner == Obj(Entry(<<"c">>, F(1)))
      Block(key) == decoded.k = "ok" /\ key \in DOMAIN decoded.v.m
      Value(key) == Plain(decoded.v.m[key])
  IN  /\ pc = "parsed" /\ text.s = Text(<<<<"u", "s", "e", "r", ":">>, <<" ", " ", "n", "a", "m", "e", ":", " ", "A", "l", "i", "c", "e">>, <<" ", " ", "a", "g", "e", ":", " ", "3", "0">>>>) =>
           Block(<<"u", "s", "e", "r">>) /\ Value(<<"u", "s", "e", "r">>) = Obj(Put(Alice.m, <<"a", "g", "e">>, F(30)))
      /\ pc = "parsed" /\ text.s = Text(<<<<"x", ":", " ", "1">>, <<"u", "s", "e", "r", ":">>, <<" ", " ", "n", "a", "m", "e", ":", " ", "A", "l", "i", "c", "e">>, <<"y", ":", " ", "2">>>>) =>
           Block(<<"u", "s", "e", "r">>) /\ Value(<<"u", "s", "e", "r">>) = Alice /\ Block(<<"y">>) /\ Value(<<"y">>) = F(2)
      /\ pc = "parsed" /\ text.s = Text(<<<<"a", ":">>, <<" ", " ", "b", ":">>, <<" ", " ", " ", " ", "c", ":", " ", "1">>, <<" ", " ", "d", ":", " ", "2">>, <<"e", ":", " ", "3">>>>) =>
           /\ Block(<<"a">>) /\ Value(<<"a">>) = Obj(Put(Entry(<<"b">>, inner), <<"d">>, F(2)))
           /\ Block(<<"e">>) /\ Value(<<"e">>) = F(3)
      /\ pc = "parsed" /\ text.s = Text(<<<<"a", ":">>, <<" ", " ", "b", ":">>, <<" ", " ", " ", " ", "c", ":", " ", "1">>, <<"e", ":", " ", "3">>>>) =>
           /\ Block(<<"a">>) /\ Value(<<"a">>) = Obj(Entry(<<"b">>, inner))
           /\ Block(<<"e">>) /\ Value(<<"e">>) = F(3)

====
